---- MODULE Spec2Model ----
(***************************************************************************)
(* A model of codypy's JSON-RPC transport: the Content-Length framing of   *)
(* src/codypy/messaging.py at the level of bytes and code points, the      *)
(* request/response loop of request_response, and the connection set-up    *)
(* of process.py, server.py and new.py.                                    *)
(*                                                                         *)
(* Text is a sequence of Unicode code points (a Python str); a byte string *)
(* is a sequence of integers 0..255 (a Python bytes).                      *)
(***************************************************************************)
EXTENDS Integers, Sequences, FiniteSets, TLC

(***************************************************************************)
(* Bounds of the model.                                                    *)
(***************************************************************************)
MaxCalls == 2
MaxNotifs == 1
MaxStreamFrames == 2

(***************************************************************************)
(* Sequence helpers.                                                       *)
(***************************************************************************)
Take(s, n) == SubSeq(s, 1, n)

Drop(s, n) == SubSeq(s, n + 1, Len(s))

\* s has t as the slice starting at index i
MatchAt(s, t, i) ==
    /\ i >= 1
    /\ i + Len(t) - 1 <= Len(s)
    /\ \A j \in 1..Len(t) : s[i + j - 1] = t[j]

\* index of the first occurrence of t in s at or after index from; 0 when none
FindFrom(s, t, from) ==
    LET hits == {i \in from..(Len(s) - Len(t) + 1) : MatchAt(s, t, i)}
    IN IF hits = {} THEN 0 ELSE CHOOSE i \in hits : \A j \in hits : i <= j

(***************************************************************************)
(* Literals of the wire format, as code points.                            *)
(***************************************************************************)
\* b"\r\n\r\n"
SEPARATOR == <<13, 10, 13, 10>>

\* "Content-Length:"
CONTENT_LENGTH_KEY == <<67, 111, 110, 116, 101, 110, 116, 45, 76, 101, 110, 103, 116, 104, 58>>

\* "Content-Length: "
HeaderPrefix == CONTENT_LENGTH_KEY \o <<32>>

\* the characters str.strip() removes: space, \t, \n, \r, \v, \f
Whitespace == {32, 9, 10, 13, 11, 12}

Digits == 48..57

MethodText(name) ==
    CASE name = "initialize" -> <<105, 110, 105, 116, 105, 97, 108, 105, 122, 101>>
      [] name = "chat/new" -> <<99, 104, 97, 116, 47, 110, 101, 119>>
      [] name = "shutdown" -> <<115, 104, 117, 116, 100, 111, 119, 110>>
      [] name = "debug/message" -> <<100, 101, 98, 117, 103, 47, 109, 101, 115, 115, 97, 103, 101>>

(***************************************************************************)
(* Decimal rendering (an f-string of an int) and parsing (int(str)).       *)
(***************************************************************************)
RECURSIVE DecNat(_)
DecNat(n) == IF n < 10 THEN <<48 + n>> ELSE DecNat(n \div 10) \o <<48 + (n % 10)>>

Dec(n) == IF n < 0 THEN <<45>> \o DecNat(0 - n) ELSE DecNat(n)

RECURSIVE DigitsValue(_, _)
DigitsValue(s, acc) ==
    IF s = <<>> THEN acc ELSE DigitsValue(Tail(s), acc * 10 + (Head(s) - 48))

RECURSIVE StripLeft(_)
StripLeft(s) ==
    IF s # <<>> /\ Head(s) \in Whitespace THEN StripLeft(Tail(s)) ELSE s

RECURSIVE StripRight(_)
StripRight(s) ==
    IF s # <<>> /\ s[Len(s)] \in Whitespace THEN StripRight(Take(s, Len(s) - 1)) ELSE s

\* str.strip()
Strip(s) == StripRight(StripLeft(s))

\* int(text) for text that is already stripped: a non-empty run of decimal
\* digits is its value, anything else raises ValueError.  (The headers of the
\* model carry no sign and no underscore.)
ParseInt(s) ==
    IF s # <<>> /\ \A i \in 1..Len(s) : s[i] \in Digits
    THEN [ok |-> TRUE, value |-> DigitsValue(s, 0), exc |-> "none"]
    ELSE [ok |-> FALSE, value |-> 0, exc |-> "ValueError"]

(***************************************************************************)
(* UTF-8: str.encode("utf-8") and bytes.decode("utf-8").                   *)
(***************************************************************************)
Utf8Char(c) ==
    IF c < 128 THEN <<c>>
    ELSE IF c < 2048 THEN <<192 + (c \div 64), 128 + (c % 64)>>
    ELSE <<224 + (c \div 4096), 128 + ((c \div 64) % 64), 128 + (c % 64)>>

\* str.encode("utf-8"), by halves to keep the evaluation shallow
RECURSIVE Utf8Encode(_)
Utf8Encode(s) ==
    IF s = <<>> THEN <<>>
    ELSE IF Len(s) = 1 THEN Utf8Char(s[1])
    ELSE LET h == Len(s) \div 2
         IN Utf8Encode(Take(s, h)) \o Utf8Encode(Drop(s, h))

IsCont(b) == b >= 128 /\ b < 192

\* the number of bytes the sequence led by byte h takes; 0 when h leads none
Utf8Width(h) ==
    IF h < 128 THEN 1
    ELSE IF h >= 192 /\ h < 224 THEN 2
    ELSE IF h >= 224 /\ h < 240 THEN 3
    ELSE 0

\* bytes.decode("utf-8") from the left, one character at a time
RECURSIVE Utf8DecodeSeq(_)
Utf8DecodeSeq(b) ==
    IF b = <<>> THEN [ok |-> TRUE, text |-> <<>>]
    ELSE LET h == Head(b)
             n == Utf8Width(h)
         IN IF n = 0 \/ Len(b) < n \/ \E i \in 2..n : ~IsCont(b[i])
            THEN [ok |-> FALSE, text |-> <<>>]
            ELSE LET c == IF n = 1 THEN h
                          ELSE IF n = 2 THEN (h - 192) * 64 + (b[2] - 128)
                          ELSE (h - 224) * 4096 + (b[2] - 128) * 64 + (b[3] - 128)
                     rest == Utf8DecodeSeq(Drop(b, n))
                 IN IF rest.ok THEN [ok |-> TRUE, text |-> <<c>> \o rest.text]
                    ELSE rest

\* bytes.decode("utf-8"): the text, or UnicodeDecodeError (ok = FALSE) on a
\* stray continuation byte, an invalid lead byte or a sequence cut short.
\* Long inputs are cut at a character boundary (a byte that is no
\* continuation byte) near the middle and the halves decoded on their own,
\* which gives what decoding from the left gives.
RECURSIVE Utf8Decode(_)
Utf8Decode(b) ==
    IF Len(b) <= 4 THEN Utf8DecodeSeq(b)
    ELSE LET mid == (Len(b) \div 2) + 1
             starts == {i \in mid..Len(b) : ~IsCont(b[i])}
         IN IF starts = {} THEN [ok |-> FALSE, text |-> <<>>]
            ELSE LET cut == CHOOSE i \in starts : \A j \in starts : i <= j
                     left == Utf8Decode(Take(b, cut - 1))
                     right == Utf8Decode(Drop(b, cut - 1))
                 IN IF left.ok /\ right.ok
                    THEN [ok |-> TRUE, text |-> left.text \o right.text]
                    ELSE [ok |-> FALSE, text |-> <<>>]

(***************************************************************************)
(* JSON values and messages.  A value is null, an integer or a string; a   *)
(* message is a dict, kept as the set of its keys and one field per key    *)
(* (a field whose key is absent holds a filler).                           *)
(***************************************************************************)
Null == [t |-> "null", n |-> 0, s |-> <<>>]

JInt(i) == [t |-> "int", n |-> i, s |-> <<>>]

JStr(text) == [t |-> "str", n |-> 0, s |-> text]

\* the string value "é": one code point, two bytes of UTF-8
AccentedParam == JStr(<<233>>)

EmptyDict ==
    [keys |-> {}, id |-> 0, method |-> "", params |-> Null, result |-> Null, code |-> 0]

\* the dict built at messaging.py:32-37
Request(i, method, params) ==
    [keys |-> {"jsonrpc", "id", "method", "params"}, id |-> i, method |-> method,
     params |-> params, result |-> Null, code |-> 0]

\* the bodies the peer sends (spec.md, section 6)
ResultResponse(i, v) ==
    [keys |-> {"id", "result"}, id |-> i, method |-> "", params |-> Null,
     result |-> v, code |-> 0]

ErrorResponse(i, c) ==
    [keys |-> {"id", "error"}, id |-> i, method |-> "", params |-> Null,
     result |-> Null, code |-> c]

Notification(method, params) ==
    [keys |-> {"method", "params"}, id |-> 0, method |-> method, params |-> params,
     result |-> Null, code |-> 0]

ValText(v) ==
    CASE v.t = "null" -> <<110, 117, 108, 108>>
      [] v.t = "int" -> Dec(v.n)
      [] v.t = "str" -> <<34>> \o v.s \o <<34>>

\* pd.to_json(message).decode(): the compact JSON text of a message
ToJson(m) ==
    CASE m.keys = {} -> <<123, 125>>
      [] m.keys = {"jsonrpc", "id", "method", "params"} ->
            \* {"jsonrpc":"2.0","id":<id>,"method":"<method>","params":<params>}
            <<123, 34, 106, 115, 111, 110, 114, 112, 99, 34, 58, 34, 50, 46, 48, 34,
              44, 34, 105, 100, 34, 58>> \o Dec(m.id)
            \o <<44, 34, 109, 101, 116, 104, 111, 100, 34, 58, 34>> \o MethodText(m.method)
            \o <<34, 44, 34, 112, 97, 114, 97, 109, 115, 34, 58>> \o ValText(m.params)
            \o <<125>>
      [] m.keys = {"id", "result"} ->
            \* {"id":<id>,"result":<value>}
            <<123, 34, 105, 100, 34, 58>> \o Dec(m.id)
            \o <<44, 34, 114, 101, 115, 117, 108, 116, 34, 58>> \o ValText(m.result)
            \o <<125>>
      [] m.keys = {"id", "error"} ->
            \* {"id":<id>,"error":{"code":<code>,"message":"err"}}
            <<123, 34, 105, 100, 34, 58>> \o Dec(m.id)
            \o <<44, 34, 101, 114, 114, 111, 114, 34, 58, 123, 34, 99, 111, 100, 101, 34, 58>>
            \o Dec(m.code)
            \o <<44, 34, 109, 101, 115, 115, 97, 103, 101, 34, 58, 34, 101, 114, 114, 34, 125, 125>>
      [] m.keys = {"method", "params"} ->
            \* {"method":"<method>","params":<params>}
            <<123, 34, 109, 101, 116, 104, 111, 100, 34, 58, 34>> \o MethodText(m.method)
            \o <<34, 44, 34, 112, 97, 114, 97, 109, 115, 34, 58>> \o ValText(m.params)
            \o <<125>>

\* what a call can be asked to send: (method, params)
CallInputs == {<<"chat/new", Null>>, <<"initialize", AccentedParam>>}

\* the JSON-RPC error code the peer answers with
PeerErrorCode == 0 - 32601

\* every message of the model: the inverse image pd.from_json is taken over
Messages ==
    {EmptyDict}
    \cup {Request(i, c[1], c[2]) : i \in 1..(MaxCalls + 1), c \in CallInputs}
    \cup {Request(i, "shutdown", Null) : i \in 1..(MaxCalls + 1)}
    \cup {ResultResponse(i, JInt(v)) : i \in 1..(MaxCalls + 1),
                                       v \in 1..(MaxCalls + MaxNotifs + MaxStreamFrames)}
    \cup {ResultResponse(i, AccentedParam) : i \in 1..(MaxCalls + 1)}
    \cup {ErrorResponse(i, PeerErrorCode) : i \in 1..(MaxCalls + 1)}
    \cup {Notification("debug/message", v) : v \in {Null, AccentedParam}}

\* pd.from_json(text): the message whose JSON text this is; a text that is
\* the JSON of no message (a truncated body, say) raises ValueError.
\* Serialisation is injective, so parsing is its inverse on its image
\* (JsonTexts pairs each message with its text).
JsonTexts == {<<ToJson(m), m>> : m \in Messages}

FromJson(text) ==
    LET hits == {p \in JsonTexts : p[1] = text}
    IN IF hits = {} THEN [ok |-> FALSE, msg |-> EmptyDict]
       ELSE [ok |-> TRUE, msg |-> (CHOOSE p \in hits : TRUE)[2]]

(***************************************************************************)
(* Framing.                                                                *)
(***************************************************************************)
\* messaging.py:40-45: the bytes handed to writer.write for a message
EncodeFrame(message) ==
    LET json_message == ToJson(message)
        content_length == Len(json_message)
        content_message == HeaderPrefix \o Dec(content_length) \o SEPARATOR \o json_message
    IN Utf8Encode(content_message)

\* a frame as the peer writes it: Content-Length counts the bytes of the body
PeerFrame(message) ==
    LET body == Utf8Encode(ToJson(message))
    IN Utf8Encode(HeaderPrefix \o Dec(Len(body)) \o SEPARATOR) \o body

\* a read that stops after the first \r\n of the separator
HeaderEndShort(buf) ==
    LET i == FindFrom(buf, SEPARATOR, 1)
    IN IF i = 0 THEN 0 ELSE i + 1

\* reader.readuntil(b"\r\n\r\n") on a buffer: index of the last byte of the
\* first separator, 0 when the buffer holds none yet
HeaderEnd(buf) ==
    LET i == FindFrom(buf, SEPARATOR, 1)
    IN IF i = 0 THEN 0 ELSE i + Len(SEPARATOR) - 1

\* a parse that takes a missing or unreadable length as 0
ParseContentLengthLenient(headers) ==
    LET dec == Utf8Decode(headers)
        k == FindFrom(dec.text, CONTENT_LENGTH_KEY, 1)
        parsed == ParseInt(Strip(Drop(dec.text, k + Len(CONTENT_LENGTH_KEY) - 1)))
    IN IF dec.ok /\ k > 0 /\ parsed.ok THEN parsed
       ELSE [ok |-> TRUE, value |-> 0, exc |-> "none"]

\* messaging.py:64-66: int(headers.decode("utf-8").split("Content-Length:")[1].strip())
ParseContentLength(headers) ==
    LET dec == Utf8Decode(headers)
        text == dec.text
        k == FindFrom(text, CONTENT_LENGTH_KEY, 1)
        after == Drop(text, k + Len(CONTENT_LENGTH_KEY) - 1)
        k2 == FindFrom(after, CONTENT_LENGTH_KEY, 1)
        part == IF k2 = 0 THEN after ELSE Take(after, k2 - 1)
    IN IF ~dec.ok THEN [ok |-> FALSE, value |-> 0, exc |-> "UnicodeDecodeError"]
       ELSE IF k = 0 THEN [ok |-> FALSE, value |-> 0, exc |-> "IndexError"]
       ELSE ParseInt(Strip(part))

\* messaging.py:71 and :95: json_data.decode("utf-8"), then pd.from_json
ParseBody(json_data) ==
    LET dec == Utf8Decode(json_data)
        parsed == FromJson(dec.text)
    IN IF ~dec.ok THEN [ok |-> FALSE, msg |-> EmptyDict, exc |-> "UnicodeDecodeError"]
       ELSE IF ~parsed.ok THEN [ok |-> FALSE, msg |-> EmptyDict, exc |-> "ValueError"]
       ELSE [ok |-> TRUE, msg |-> parsed.msg, exc |-> "none"]

\* messaging.py:63-66, the first await of _receive_jsonrpc_messages, on a
\* reader whose buffer is buf: readuntil returns the bytes up to and including
\* the first separator and the length is parsed ("ok", or "raise" with the
\* exception of the parse); at EOF without a separator readuntil raises
\* IncompleteReadError and empties the buffer; otherwise the read is blocked
\* until more bytes arrive or wait_for times out.
ReceiveHeader(buf, eof) ==
    LET e == HeaderEnd(buf)
        parsed == ParseContentLength(Take(buf, e))
    IN IF e > 0
       THEN [status |-> IF parsed.ok THEN "ok" ELSE "raise", rest |-> Drop(buf, e),
             value |-> parsed.value, exc |-> parsed.exc]
       ELSE IF eof
       THEN [status |-> "raise", rest |-> <<>>, value |-> 0, exc |-> "IncompleteReadError"]
       ELSE [status |-> "blocked", rest |-> buf, value |-> 0, exc |-> "none"]

\* messaging.py:68-71 and :95, the second await and the parse of the body:
\* readexactly(n) returns the next n bytes, which are decoded and parsed;
\* at EOF with fewer than n bytes it raises IncompleteReadError and empties
\* the buffer; otherwise the read is blocked.
ReceiveBody(buf, n, eof) ==
    LET body == ParseBody(Take(buf, n))
    IN IF Len(buf) >= n
       THEN [status |-> IF body.ok THEN "ok" ELSE "raise", rest |-> Drop(buf, n),
             msg |-> body.msg, exc |-> body.exc]
       ELSE IF eof
       THEN [status |-> "raise", rest |-> <<>>, msg |-> EmptyDict,
             exc |-> "IncompleteReadError"]
       ELSE [status |-> "blocked", rest |-> buf, msg |-> EmptyDict, exc |-> "none"]

(***************************************************************************)
(* State.                                                                  *)
(***************************************************************************)
VARIABLES
    MESSAGE_ID,   \* messaging.py:10, the module-level request id counter
    tasks,        \* the caller tasks of the event loop (fixed by Init)
    pc,           \* per task: where it stands in request_response
    awaited,      \* per task: message["id"] of the request it wrote
    clen,         \* per task: content_length of the frame being read
    outcome,      \* per task: how its latest call ended
    ncalls,       \* calls started so far
    wireIds,      \* the id of each request frame the transport accepted, in order
    lastWrite,    \* the bytes of the latest writer.write
    connLost,     \* the write side of the transport has lost its connection
    net,          \* bytes the peer has written that have not reached the reader
    rbuf,         \* the StreamReader's buffer
    peerClosed,   \* the peer has closed its end: EOF follows the bytes in net
    answered,     \* request ids the peer has answered
    nFrames,      \* response frames the peer has written
    nNotifs,      \* notification frames the peer has written
    ownRead,      \* the responses read by the call that awaited their id: (id, kind)
    source,       \* codec runs: the frames laid into the stream, in order
    dpc,          \* codec runs: where the decoder stands
    dlen,         \* codec runs: content_length of the frame being decoded
    decoded,      \* codec runs: the outcome of each decode, in order
    impl,         \* connection runs: whose open is run ("process", "server", "new")
    use_tcp,      \* connection runs: the use_tcp flag of the object
    cpc,          \* connection runs: where the open stands
    iter,         \* connection runs: iterations of the connect loop completed
    retry,        \* connection runs: the local variable retry of server.py and new.py
    history,      \* connection runs: the outcome of each open_connection call, in order
    reader,       \* connection runs: what the object's reader is
    writer,       \* connection runs: what the object's writer is
    process,      \* connection runs: the child process ("none", "running", "exited")
    openError,    \* connection runs: the exception the open raised
    binary,       \* connection runs: the configured executable ("present", "empty", "absent")
    lpc,          \* connection runs: where close() / cleanup_server() stands
    signals,      \* connection runs: terminate() calls made on the child process
    writerClosed, \* connection runs: writer.close() has been called
    closeLog,     \* connection runs: the steps of the latest close() / cleanup_server()
    closeCalls,   \* connection runs: close() / cleanup_server() calls started
    closeError,   \* connection runs: the exception the latest close() / cleanup_server() raised
    connBase,     \* request frames written on connections opened before the current one
    kpc,          \* client runs: where the client coroutine stands
    authReply,    \* client runs: the authenticated field of the initialize result
    clientError,  \* client runs: the exception the latest client operation raised
    repos,        \* client runs: self.repos, the cache of looked-up repositories
    current_repo_context, \* client runs: the recorded repository context
    sent,         \* client runs: the requests written, each as (method, names)
    pending,      \* client runs: the operation that awaits a response
    nops,         \* client runs: client operations called
    lastCall,     \* client runs: the latest client operation called, its argument and
                  \* the recorded context it found
    lastReturn,   \* client runs: what the latest chat() returned
    leftBy        \* command runs: how the command left its try block

callVars == <<MESSAGE_ID, tasks, pc, awaited, clen, outcome, ncalls, wireIds, lastWrite,
              connLost, answered, nFrames, nNotifs, ownRead>>

streamVars == <<net, rbuf, peerClosed>>

codecVars == <<source, dpc, dlen, decoded>>

connVars == <<impl, use_tcp, cpc, iter, retry, history, reader, writer, process, openError>>

lifeVars == <<binary, lpc, signals, writerClosed, closeLog, closeCalls, closeError>>

clientVars == <<connBase, kpc, authReply, clientError, repos, current_repo_context, sent,
                pending, nops, lastCall, lastReturn, leftBy>>

vars == <<callVars, streamVars, codecVars, connVars, lifeVars, clientVars>>

NoOutcome ==
    [kind |-> "none", via |-> "none", value |-> Null, exc |-> "none",
     frame |-> EmptyDict, timeout |-> FALSE]

\* `return response["result"]` at messaging.py:300
Returned(response) ==
    [kind |-> "return", via |-> "result", value |-> response.result, exc |-> "none",
     frame |-> response, timeout |-> FALSE]

\* `return None` at messaging.py:302, reached when the generator is exhausted,
\* which happens only after it caught asyncio.TimeoutError and yielded {}
ReturnedNone ==
    [kind |-> "return", via |-> "exhausted", value |-> Null, exc |-> "none",
     frame |-> EmptyDict, timeout |-> TRUE]

\* an exception that leaves request_response
Raised(exc) ==
    [kind |-> "raise", via |-> "none", value |-> Null, exc |-> exc,
     frame |-> EmptyDict, timeout |-> FALSE]

\* the reader is at EOF: the peer closed and every byte it wrote has arrived
AtEof == peerClosed /\ net = <<>>

\* a counter that is never advanced
NextMessageIdStuck(mid) == mid

\* MESSAGE_ID += 1 at messaging.py:47
NextMessageId(mid) == mid + 1

\* a request_response that returns as soon as its request is written
AfterSendReturn == "done"

\* messaging.py:271-273: after `await _send_jsonrpc_request(...)` the call
\* enters its read loop
AfterSend == "readHeader"

\* a response frame: an id with a result or an error envelope
IsResponse(m) == "id" \in m.keys /\ m.keys \cap {"result", "error"} # {}

ResponseKind(m) == IF "error" \in m.keys THEN "error" ELSE "result"

\* a generator that goes back to reading after a timeout
AfterTimeoutReadOn == "readHeader"

\* messaging.py:92-97 and 302: the except clause lies outside the while loop,
\* so after the {} it yields the generator ends and request_response returns
AfterTimeout == "done"

\* a loop that takes every non-empty frame as the end of the call
CompletesCallAny(response) == response.keys # {}

\* messaging.py:295: `if response and await _has_result(response)`
CompletesCall(response) == response.keys # {} /\ "result" \in response.keys

(***************************************************************************)
(* request_response, one task t.  The task yields only at the awaits:      *)
(* writer.drain(), reader.readuntil() and reader.readexactly().            *)
(***************************************************************************)
\* messaging.py:271-45: build the message with the current MESSAGE_ID and
\* hand its frame to writer.write; a transport that lost its connection
\* discards the bytes.
Send(t, method, params) ==
    /\ pc[t] \in {"idle", "done"}
    /\ ncalls < MaxCalls
    /\ ncalls' = ncalls + 1
    /\ LET message == Request(MESSAGE_ID, method, params)
       IN /\ lastWrite' = EncodeFrame(message)
          /\ wireIds' = IF connLost THEN wireIds ELSE Append(wireIds, message.id)
          /\ awaited' = [awaited EXCEPT ![t] = message.id]
    /\ pc' = [pc EXCEPT ![t] = "drain"]
    /\ outcome' = [outcome EXCEPT ![t] = NoOutcome]
    /\ UNCHANGED <<MESSAGE_ID, tasks, clen, connLost, answered, nFrames, nNotifs, ownRead>>
    /\ UNCHANGED <<streamVars, codecVars, connVars, lifeVars>>
    /\ UNCHANGED clientVars

\* messaging.py:46-47: drain returns, the counter is incremented
DrainOk(t) ==
    /\ pc[t] = "drain"
    /\ ~connLost
    /\ MESSAGE_ID' = NextMessageId(MESSAGE_ID)
    /\ pc' = [pc EXCEPT ![t] = AfterSend]
    /\ UNCHANGED <<tasks, awaited, clen, outcome, ncalls, wireIds, lastWrite, connLost,
                   answered, nFrames, nNotifs, ownRead>>
    /\ UNCHANGED <<streamVars, codecVars, connVars, lifeVars>>
    /\ UNCHANGED clientVars

\* messaging.py:46: drain raises on a lost connection; line 47 is not reached
DrainFail(t) ==
    /\ pc[t] = "drain"
    /\ connLost
    /\ pc' = [pc EXCEPT ![t] = "done"]
    /\ outcome' = [outcome EXCEPT ![t] = Raised("ConnectionResetError")]
    /\ UNCHANGED <<MESSAGE_ID, tasks, awaited, clen, ncalls, wireIds, lastWrite, connLost,
                   answered, nFrames, nNotifs, ownRead>>
    /\ UNCHANGED <<streamVars, codecVars, connVars, lifeVars>>
    /\ UNCHANGED clientVars

\* messaging.py:63-66 and :95-97 on task t: the header read ends (a blocked
\* read is left to Timeout); a header that cannot be parsed, or EOF, raises
\* out of request_response.
RecvHeader(t) ==
    /\ pc[t] = "readHeader"
    /\ LET r == ReceiveHeader(rbuf, AtEof)
       IN /\ r.status # "blocked"
          /\ rbuf' = r.rest
          /\ IF r.status = "ok"
             THEN /\ clen' = [clen EXCEPT ![t] = r.value]
                  /\ pc' = [pc EXCEPT ![t] = "readBody"]
                  /\ UNCHANGED outcome
             ELSE /\ pc' = [pc EXCEPT ![t] = "done"]
                  /\ outcome' = [outcome EXCEPT ![t] = Raised(r.exc)]
                  /\ UNCHANGED clen
    /\ UNCHANGED <<MESSAGE_ID, tasks, awaited, ncalls, wireIds, lastWrite, connLost,
                   answered, nFrames, nNotifs, ownRead, net, peerClosed>>
    /\ UNCHANGED <<codecVars, connVars, lifeVars>>
    /\ UNCHANGED clientVars

\* messaging.py:68-71, 95 and 273-300: readexactly returns the body, it is
\* decoded and parsed, and the loop body of request_response handles it:
\* a frame with a "result" key ends the call, any other frame is passed over
\* (logged when it has a method) and the loop reads on.
RecvBody(t) ==
    /\ pc[t] = "readBody"
    /\ LET r == ReceiveBody(rbuf, clen[t], AtEof)
       IN /\ r.status # "blocked"
          /\ rbuf' = r.rest
          /\ ownRead' = IF r.status = "ok" /\ IsResponse(r.msg) /\ r.msg.id = awaited[t]
                        THEN ownRead \cup {<<r.msg.id, ResponseKind(r.msg)>>}
                        ELSE ownRead
          /\ IF r.status = "raise"
             THEN /\ pc' = [pc EXCEPT ![t] = "done"]
                  /\ outcome' = [outcome EXCEPT ![t] = Raised(r.exc)]
             ELSE IF CompletesCall(r.msg)
             THEN /\ pc' = [pc EXCEPT ![t] = "done"]
                  /\ outcome' = [outcome EXCEPT ![t] = Returned(r.msg)]
             ELSE /\ pc' = [pc EXCEPT ![t] = "readHeader"]
                  /\ UNCHANGED outcome
    /\ UNCHANGED <<MESSAGE_ID, tasks, awaited, clen, ncalls, wireIds, lastWrite, connLost,
                   answered, nFrames, nNotifs, net, peerClosed>>
    /\ UNCHANGED <<codecVars, connVars, lifeVars>>
    /\ UNCHANGED clientVars

\* a timeout that discards what the stream holds
StreamAfterTimeoutDrained(bytes) == <<>>

\* messaging.py:96-97: the except clause only yields {}; the bytes buffered
\* and the bytes still to arrive stay where they are
StreamAfterTimeout(bytes) == bytes

\* the read the task is blocked in cannot complete from the buffer
ReadBlocked(t) ==
    \/ pc[t] = "readHeader" /\ ReceiveHeader(rbuf, AtEof).status = "blocked"
    \/ pc[t] = "readBody" /\ ReceiveBody(rbuf, clen[t], AtEof).status = "blocked"

\* messaging.py:63/68 and 96-97, 302: wait_for gives up after 5 seconds
\* (a cancelled read consumes nothing); the generator catches the
\* TimeoutError and yields {}, which completes nothing; the generator then
\* ends and request_response returns None.
Timeout(t) ==
    /\ ReadBlocked(t)
    /\ pc' = [pc EXCEPT ![t] = AfterTimeout]
    /\ outcome' = [outcome EXCEPT ![t] = ReturnedNone]
    /\ rbuf' = StreamAfterTimeout(rbuf)
    /\ net' = StreamAfterTimeout(net)
    /\ UNCHANGED <<MESSAGE_ID, tasks, awaited, clen, ncalls, wireIds, lastWrite, connLost,
                   answered, nFrames, nNotifs, ownRead, peerClosed>>
    /\ UNCHANGED <<codecVars, connVars, lifeVars>>
    /\ UNCHANGED clientVars

(***************************************************************************)
(* The peer and the transport (the environment).                           *)
(***************************************************************************)
\* the peer answers a request it received on the current connection, once,
\* with a result or an error (the model keeps at most one frame in transit:
\* a frame is written when the one before it has reached the reader's buffer)
PeerRespond(k, isError) ==
    /\ ~peerClosed
    /\ net = <<>>
    /\ \E i \in (connBase + 1)..Len(wireIds) : wireIds[i] = k
    /\ k \notin answered
    /\ answered' = answered \cup {k}
    /\ nFrames' = nFrames + 1
    /\ net' = net \o PeerFrame(IF isError THEN ErrorResponse(k, PeerErrorCode)
                               ELSE ResultResponse(k, JInt(nFrames + 1)))
    /\ UNCHANGED <<MESSAGE_ID, tasks, pc, awaited, clen, outcome, ncalls, wireIds,
                   lastWrite, connLost, nNotifs, ownRead, rbuf, peerClosed>>
    /\ UNCHANGED <<codecVars, connVars, lifeVars>>
    /\ UNCHANGED clientVars

\* the peer sends a notification
PeerNotify ==
    /\ ~peerClosed
    /\ net = <<>>
    /\ nNotifs < MaxNotifs
    /\ nNotifs' = nNotifs + 1
    /\ net' = net \o PeerFrame(Notification("debug/message", Null))
    /\ UNCHANGED <<MESSAGE_ID, tasks, pc, awaited, clen, outcome, ncalls, wireIds,
                   lastWrite, connLost, answered, nFrames, ownRead, rbuf, peerClosed>>
    /\ UNCHANGED <<codecVars, connVars, lifeVars>>
    /\ UNCHANGED clientVars

\* bytes in transit reach the reader: all of them, or only the first header
Deliver ==
    /\ net # <<>>
    /\ \E n \in {Len(net), HeaderEnd(net)} :
          /\ n > 0
          /\ rbuf' = rbuf \o Take(net, n)
          /\ net' = Drop(net, n)
    /\ UNCHANGED <<callVars, peerClosed, codecVars, connVars, lifeVars>>
    /\ UNCHANGED clientVars

\* the peer closes its end of the stream.  Only a read observes the EOF, so
\* the close is taken while a task is reading.
PeerClose ==
    /\ ~peerClosed
    /\ \E t \in tasks : pc[t] \in {"readHeader", "readBody"}
    /\ peerClosed' = TRUE
    /\ UNCHANGED <<callVars, net, rbuf, codecVars, connVars, lifeVars>>
    /\ UNCHANGED clientVars

\* the write side loses its connection.  Only write and drain observe the
\* loss, so it is taken while a task is at one of them.
ConnectionLost ==
    /\ ~connLost
    /\ \E t \in tasks : pc[t] \in {"idle", "done", "drain"}
    /\ connLost' = TRUE
    /\ UNCHANGED <<MESSAGE_ID, tasks, pc, awaited, clen, outcome, ncalls, wireIds,
                   lastWrite, answered, nFrames, nNotifs, ownRead>>
    /\ UNCHANGED <<streamVars, codecVars, connVars, lifeVars>>
    /\ UNCHANGED clientVars

\* the repository names of the model
RepoNames == {"r1", "r2"}

NoPending == [op |-> "none", list |-> <<>>]

NoCall == [op |-> "none", list |-> <<>>, same |-> FALSE, before |-> <<>>]

NoReturn == [kind |-> "none", response |-> "", context_files |-> <<>>]

\* no client object is in use
ClientIdle ==
    /\ connBase = 0
    /\ kpc = "off"
    /\ authReply = "unknown"
    /\ clientError = "none"
    /\ repos = [x \in RepoNames |-> "absent"]
    /\ current_repo_context = <<>>
    /\ sent = <<>>
    /\ pending = NoPending
    /\ nops = 0
    /\ lastCall = NoCall
    /\ lastReturn = NoReturn
    /\ leftBy = "none"

CodecIdle ==
    /\ source = <<>>
    /\ dpc = "off"
    /\ dlen = 0
    /\ decoded = <<>>

\* no open is being run: the connection is taken as established over stdio
ConnIdle ==
    /\ impl = "process"
    /\ use_tcp = FALSE
    /\ cpc = "off"
    /\ iter = 0
    /\ retry = 0
    /\ history = <<>>
    /\ reader = "stdout"
    /\ writer = "stdin"
    /\ process = "running"
    /\ openError = "none"
    /\ binary = "present"
    /\ lpc = "off"
    /\ signals = 0
    /\ writerClosed = FALSE
    /\ closeLog = <<>>
    /\ closeCalls = 0
    /\ closeError = "none"

\* one client task on a fresh connection, the module just imported
Init ==
    /\ MESSAGE_ID = 1
    /\ tasks = {1}
    /\ pc = [t \in tasks |-> "idle"]
    /\ awaited = [t \in tasks |-> 0]
    /\ clen = [t \in tasks |-> 0]
    /\ outcome = [t \in tasks |-> NoOutcome]
    /\ ncalls = 0
    /\ wireIds = <<>>
    /\ lastWrite = <<>>
    /\ connLost = FALSE
    /\ net = <<>>
    /\ rbuf = <<>>
    /\ peerClosed = FALSE
    /\ answered = {}
    /\ nFrames = 0
    /\ nNotifs = 0
    /\ ownRead = {}
    /\ CodecIdle
    /\ ConnIdle
    /\ ClientIdle

Next ==
    \/ \E t \in tasks, c \in CallInputs : Send(t, c[1], c[2])
    \/ \E t \in tasks : DrainOk(t)
    \/ \E t \in tasks : DrainFail(t)
    \/ \E t \in tasks : RecvHeader(t)
    \/ \E t \in tasks : RecvBody(t)
    \/ \E t \in tasks : Timeout(t)
    \/ \E k \in 1..(MaxCalls + 1), isError \in BOOLEAN : PeerRespond(k, isError)
    \/ PeerNotify
    \/ Deliver
    \/ PeerClose
    \/ ConnectionLost

Spec == Init /\ [][Next]_vars

(***************************************************************************)
(* A peer that never runs out of notifications (specification SpecLive),   *)
(* with the fairness the event loop gives: a task whose await has          *)
(* completed is resumed, bytes in transit arrive, and the timer of         *)
(* wait_for fires when a read stays blocked.                               *)
(***************************************************************************)
\* the peer sends one more notification to a call that is reading, once the
\* frame before it has been read; the count of them stops at its bound
PeerNotifyAgain ==
    /\ ~peerClosed
    /\ net = <<>>
    /\ rbuf = <<>>
    /\ \E t \in tasks : pc[t] \in {"readHeader", "readBody"}
    /\ nNotifs' = IF nNotifs < MaxNotifs THEN nNotifs + 1 ELSE nNotifs
    /\ net' = net \o PeerFrame(Notification("debug/message", Null))
    /\ UNCHANGED <<MESSAGE_ID, tasks, pc, awaited, clen, outcome, ncalls, wireIds,
                   lastWrite, connLost, answered, nFrames, ownRead, rbuf, peerClosed>>
    /\ UNCHANGED <<codecVars, connVars, lifeVars>>
    /\ UNCHANGED clientVars

NextLive ==
    \/ \E t \in tasks, c \in CallInputs : Send(t, c[1], c[2])
    \/ \E t \in tasks : DrainOk(t)
    \/ \E t \in tasks : RecvHeader(t)
    \/ \E t \in tasks : RecvBody(t)
    \/ \E t \in tasks : Timeout(t)
    \/ \E k \in 1..(MaxCalls + 1), isError \in BOOLEAN : PeerRespond(k, isError)
    \/ PeerNotifyAgain
    \/ Deliver

\* the steps of the caller task that need no one else: its awaits complete
\* or time out (at most one of them is enabled at a time)
TaskStep == DrainOk(1) \/ RecvHeader(1) \/ RecvBody(1) \/ Timeout(1)

\* TaskStep is enabled: the task is in an await that completes or times out
TaskCanStep == pc[1] \in {"readHeader", "readBody"} \/ (pc[1] = "drain" /\ ~connLost)

\* weak fairness of TaskStep, with its enabling condition written out, and
\* weak fairness of the transport
SpecLive ==
    /\ Init
    /\ [][NextLive]_vars
    /\ ([]<>(~TaskCanStep) \/ []<><<TaskStep>>_vars)
    /\ WF_vars(Deliver)

(***************************************************************************)
(* Two connections in one interpreter (specification SpecConns): after     *)
(* calls on a first CodyServer a second one is created.  Each object has   *)
(* its own reader and writer (server.py:51-56, 103-104); MESSAGE_ID is a   *)
(* global of the module messaging (messaging.py:10, 31) and is assigned    *)
(* only at import.                                                         *)
(***************************************************************************)
\* messaging.py:10 and server.py:39-56: creating a CodyServer does not touch
\* the module's counter
CounterOnNewConnection(mid) == mid

\* server.py:39-49 and 95-104: a second CodyServer is created once the calls
\* on the first have ended; its streams are fresh and its peer has received
\* nothing yet
NewConnection ==
    /\ connBase = 0
    /\ wireIds # <<>>
    /\ \A t \in tasks : pc[t] \in {"idle", "done"}
    /\ connBase' = Len(wireIds)
    /\ MESSAGE_ID' = CounterOnNewConnection(MESSAGE_ID)
    /\ net' = <<>>
    /\ rbuf' = <<>>
    /\ peerClosed' = FALSE
    /\ connLost' = FALSE
    /\ answered' = {}
    /\ UNCHANGED <<tasks, pc, awaited, clen, outcome, ncalls, wireIds, lastWrite,
                   nFrames, nNotifs, ownRead>>
    /\ UNCHANGED <<kpc, authReply, clientError, repos, current_repo_context, sent, pending,
                   nops, lastCall, lastReturn, leftBy>>
    /\ UNCHANGED <<codecVars, connVars, lifeVars>>

NextConns ==
    \/ \E t \in tasks, c \in CallInputs : Send(t, c[1], c[2])
    \/ \E t \in tasks : DrainOk(t)
    \/ \E t \in tasks : DrainFail(t)
    \/ \E t \in tasks : RecvHeader(t)
    \/ \E t \in tasks : RecvBody(t)
    \/ \E t \in tasks : Timeout(t)
    \/ \E k \in 1..(MaxCalls + 1), isError \in BOOLEAN : PeerRespond(k, isError)
    \/ Deliver
    \/ ConnectionLost
    \/ NewConnection

SpecConns == Init /\ [][NextConns]_vars

(***************************************************************************)
(* Two caller tasks on one connection (specification SpecRace).            *)
(* request_response takes no lock, so the tasks interleave at its awaits:  *)
(* a drain that waits on backpressure, and the frame reads.                *)
(***************************************************************************)
\* as Init, with two tasks
InitRace ==
    /\ MESSAGE_ID = 1
    /\ tasks = {1, 2}
    /\ pc = [t \in tasks |-> "idle"]
    /\ awaited = [t \in tasks |-> 0]
    /\ clen = [t \in tasks |-> 0]
    /\ outcome = [t \in tasks |-> NoOutcome]
    /\ ncalls = 0
    /\ wireIds = <<>>
    /\ lastWrite = <<>>
    /\ connLost = FALSE
    /\ net = <<>>
    /\ rbuf = <<>>
    /\ peerClosed = FALSE
    /\ answered = {}
    /\ nFrames = 0
    /\ nNotifs = 0
    /\ ownRead = {}
    /\ CodecIdle
    /\ ConnIdle
    /\ ClientIdle

\* a StreamReader lets one coroutine wait for data: of two tasks whose reads
\* are both blocked, the one that came second gets RuntimeError from
\* readuntil / readexactly, which leaves request_response (the model lets
\* either of the two be that one)
ReadCollides(t) ==
    /\ ReadBlocked(t)
    /\ \E u \in tasks \ {t} : ReadBlocked(u)
    /\ pc' = [pc EXCEPT ![t] = "done"]
    /\ outcome' = [outcome EXCEPT ![t] = Raised("RuntimeError")]
    /\ UNCHANGED <<MESSAGE_ID, tasks, awaited, clen, ncalls, wireIds, lastWrite, connLost,
                   answered, nFrames, nNotifs, ownRead>>
    /\ UNCHANGED <<streamVars, codecVars, connVars, lifeVars>>
    /\ UNCHANGED clientVars

NextRace ==
    \/ \E t \in tasks, c \in CallInputs : Send(t, c[1], c[2])
    \/ \E t \in tasks : DrainOk(t)
    \/ \E t \in tasks : DrainFail(t)
    \/ \E t \in tasks : RecvHeader(t)
    \/ \E t \in tasks : RecvBody(t)
    \/ \E t \in tasks : Timeout(t)
    \/ \E t \in tasks : ReadCollides(t)
    \/ \E k \in 1..(MaxCalls + 1), isError \in BOOLEAN : PeerRespond(k, isError)
    \/ Deliver
    \/ ConnectionLost

SpecRace == InitRace /\ [][NextRace]_vars

(***************************************************************************)
(* The codec on its own (specification SpecCodec): a stream holding frames *)
(* back to back is decoded frame by frame, as the loop of                  *)
(* _handle_server_respones does at messaging.py:94-95.  The stream is      *)
(* drawn by InitCodec: frames written by the peer, frames written by       *)
(* _send_jsonrpc_request (a loop-back), and malformed frames; after its    *)
(* last byte the stream either ends (EOF) or stalls.                       *)
(***************************************************************************)
\* bodies the peer frames of a codec run carry
CodecPeerMessages ==
    {ResultResponse(1, JInt(1)), ResultResponse(2, AccentedParam),
     Notification("debug/message", AccentedParam)}

\* requests the loop-back frames of a codec run carry
CodecRequests == {Request(1, c[1], c[2]) : c \in CallInputs}

\* "Content-Type: x\r\n\r\n": a header without a Content-Length field
HeaderWithoutLength ==
    <<67, 111, 110, 116, 101, 110, 116, 45, 84, 121, 112, 101, 58, 32, 120>> \o SEPARATOR

\* "Content-Length: x\r\n\r\n": a declared length that is no decimal integer
HeaderWithBadLength == HeaderPrefix \o <<120>> \o SEPARATOR

\* the frames a stream is made of, each with the message it carries
WellFormedFrames ==
    {[kind |-> "peer", msg |-> m, bytes |-> PeerFrame(m)] : m \in CodecPeerMessages}

LoopbackFrames ==
    {[kind |-> "client", msg |-> m, bytes |-> EncodeFrame(m)] : m \in CodecRequests}

MalformedFrames ==
    LET m == ResultResponse(1, JInt(1))
        body == Utf8Encode(ToJson(m))
    IN {[kind |-> "nolength", msg |-> m, bytes |-> HeaderWithoutLength \o body],
        [kind |-> "badlength", msg |-> m, bytes |-> HeaderWithBadLength \o body],
        [kind |-> "short", msg |-> m, bytes |-> Take(PeerFrame(m), Len(PeerFrame(m)) - 2)]}

FrameChoices == WellFormedFrames \cup LoopbackFrames \cup MalformedFrames

\* the bytes of frames i.. of the stream
RECURSIVE BytesFrom(_, _)
BytesFrom(frames, i) ==
    IF i > Len(frames) THEN <<>> ELSE frames[i].bytes \o BytesFrom(frames, i + 1)

\* a stream of 1..MaxStreamFrames frames; a frame cut short can only be the last
InitCodec ==
    /\ MESSAGE_ID = 1
    /\ tasks = {}
    /\ pc = <<>>
    /\ awaited = <<>>
    /\ clen = <<>>
    /\ outcome = <<>>
    /\ ncalls = 0
    /\ wireIds = <<>>
    /\ lastWrite = <<>>
    /\ connLost = FALSE
    /\ answered = {}
    /\ nFrames = 0
    /\ nNotifs = 0
    /\ ownRead = {}
    /\ net = <<>>
    /\ \E n \in 1..MaxStreamFrames :
          /\ source \in [1..n -> FrameChoices]
          /\ \A i \in 1..(n - 1) : source[i].kind # "short"
    /\ rbuf = BytesFrom(source, 1)
    /\ peerClosed \in BOOLEAN
    /\ dpc = "header"
    /\ dlen = 0
    /\ decoded = <<>>
    /\ ConnIdle
    /\ ClientIdle

DecodeOk(m) == [ok |-> TRUE, msg |-> m, exc |-> "none"]

DecodeRaised(exc) == [ok |-> FALSE, msg |-> EmptyDict, exc |-> exc]

\* the decoder is at a frame of the stream and its header read can end
HeaderReady ==
    /\ dpc = "header"
    /\ Len(decoded) < Len(source)
    /\ ReceiveHeader(rbuf, AtEof).status # "blocked"

\* the decoder's body read can end
BodyReady == dpc = "body" /\ ReceiveBody(rbuf, dlen, AtEof).status # "blocked"

\* the decoder's pending read is blocked on a stream that is not at EOF
DecodeStalled ==
    \/ /\ dpc = "header"
       /\ Len(decoded) < Len(source)
       /\ ReceiveHeader(rbuf, AtEof).status = "blocked"
    \/ dpc = "body" /\ ReceiveBody(rbuf, dlen, AtEof).status = "blocked"

\* messaging.py:63-66: the header of the next frame is read and parsed
DecodeHeader ==
    /\ HeaderReady
    /\ LET r == ReceiveHeader(rbuf, AtEof)
       IN /\ rbuf' = r.rest
          /\ IF r.status = "ok"
             THEN /\ dlen' = r.value
                  /\ dpc' = "body"
                  /\ UNCHANGED decoded
             ELSE /\ dpc' = "failed"
                  /\ decoded' = Append(decoded, DecodeRaised(r.exc))
                  /\ UNCHANGED dlen
    /\ UNCHANGED <<callVars, connVars, lifeVars, net, peerClosed, source>>
    /\ UNCHANGED clientVars

\* messaging.py:68-71 and :95: the body is read, decoded and parsed
DecodeBody ==
    /\ BodyReady
    /\ LET r == ReceiveBody(rbuf, dlen, AtEof)
       IN /\ rbuf' = r.rest
          /\ IF r.status = "ok"
             THEN /\ dpc' = "header"
                  /\ decoded' = Append(decoded, DecodeOk(r.msg))
             ELSE /\ dpc' = "failed"
                  /\ decoded' = Append(decoded, DecodeRaised(r.exc))
    /\ UNCHANGED <<callVars, connVars, lifeVars, net, peerClosed, source, dlen>>
    /\ UNCHANGED clientVars

\* messaging.py:63/68: the read is blocked on a stalled stream and wait_for
\* raises asyncio.TimeoutError out of _receive_jsonrpc_messages
DecodeTimeout ==
    /\ DecodeStalled
    /\ dpc' = "failed"
    /\ decoded' = Append(decoded, DecodeRaised("TimeoutError"))
    /\ UNCHANGED <<callVars, connVars, lifeVars, streamVars, source, dlen>>
    /\ UNCHANGED clientVars

NextCodec == DecodeHeader \/ DecodeBody \/ DecodeTimeout

SpecCodec == InitCodec /\ [][NextCodec]_vars

(***************************************************************************)
(* Opening the connection (specification SpecConn): the child process is   *)
(* spawned and, in TCP mode, the connect loop is run.  Three objects do    *)
(* this: CodyProcessManager.create_process (process.py),                   *)
(* CodyServer._create_server_connection (server.py) and                    *)
(* CodyAgentClient.create_process (new.py).                                *)
(***************************************************************************)
\* retry_attempts at process.py:54, server.py:110 and new.py:111
retry_attempts == 5

\* a loop that runs one iteration too many
MoreAttemptsOffByOne(i) == i <= retry_attempts

\* `for _ in range(retry_attempts)`: there is an iteration after i of them
MoreAttempts(i) == i < retry_attempts

Impls == {"process", "server", "new"}

\* an except clause that catches every error of open_connection
IsRetriedAny(exc) == TRUE

\* process.py:63, server.py:127, new.py:120: `except ConnectionRefusedError`
\* is the only handler around open_connection
IsRetried(exc) == exc = "refused"

\* close() / cleanup_server() calls made on one object
MaxCloses == 2

\* a check that takes only an empty path as a missing executable
BinaryMissingOnlyEmpty(b) == b = "empty"

\* the configured executable cannot be run: the path is empty
\* (server.py:70) or names no file (new.py:79; for process.py and for a
\* non-empty path in server.py the exec of create_subprocess_exec fails)
BinaryMissing(b) == b # "present"

\* the exception a missing executable ends the open with: server.py:71-75
\* raises AgentBinaryNotFoundError for an empty path; new.py:80-83 raises
\* FileNotFoundError, and so does create_subprocess_exec
BinaryError(i, b) ==
    IF i = "server" /\ b = "empty" THEN "AgentBinaryNotFoundError" ELSE "FileNotFoundError"

\* a close that takes every object as having a process
HasProcessAlways(p) == TRUE

\* process.py:71: `if self.process:`
HasProcess(p) == p # "none"

\* a close that signals the child whatever its state
NeedsTerminateAlways(p) == TRUE

\* process.py:75, server.py:156, new.py:168: `returncode is None`
NeedsTerminate(p) == p = "running"

\* a wait that returns without the child having exited
WaitReturnsAtOnce(p) == TRUE

\* process.py:80, server.py:158, new.py:170: `await process.wait()` returns
\* once the child has exited
WaitReturns(p) == p = "exited"

CallIdle ==
    /\ MESSAGE_ID = 1
    /\ tasks = {}
    /\ pc = <<>>
    /\ awaited = <<>>
    /\ clen = <<>>
    /\ outcome = <<>>
    /\ ncalls = 0
    /\ wireIds = <<>>
    /\ lastWrite = <<>>
    /\ connLost = FALSE
    /\ answered = {}
    /\ nFrames = 0
    /\ nNotifs = 0
    /\ ownRead = {}
    /\ net = <<>>
    /\ rbuf = <<>>
    /\ peerClosed = FALSE

\* a freshly constructed object (process.py:21-27, server.py:51-56, new.py:36-43)
InitConn ==
    /\ CallIdle
    /\ CodecIdle
    /\ ClientIdle
    /\ impl \in Impls
    /\ use_tcp \in BOOLEAN
    /\ cpc = "start"
    /\ iter = 0
    /\ retry = 0
    /\ history = <<>>
    /\ reader = "none"
    /\ writer = "none"
    /\ process = "none"
    /\ openError = "none"
    /\ binary \in {"present", "empty", "absent"}
    /\ lpc = "ready"
    /\ signals = 0
    /\ writerClosed = FALSE
    /\ closeLog = <<>>
    /\ closeCalls = 0
    /\ closeError = "none"

\* process.py:36-50, server.py:95-107, new.py:94-108 and 128-129: the child is
\* spawned and its pipes become the reader and the writer; without TCP the
\* open is over, with TCP the connect loop is entered
Spawn ==
    /\ cpc = "start"
    /\ ~BinaryMissing(binary)
    /\ process' = "running"
    /\ reader' = "stdout"
    /\ writer' = "stdin"
    /\ cpc' = IF use_tcp THEN "connect" ELSE "open"
    /\ UNCHANGED <<impl, use_tcp, iter, retry, history, openError>>
    /\ UNCHANGED <<callVars, streamVars, codecVars, lifeVars>>
    /\ UNCHANGED clientVars

\* server.py:70-75, new.py:79-83, process.py:36: the executable is missing
\* and the open ends with the exception, before any child process exists
SpawnFails ==
    /\ cpc = "start"
    /\ BinaryMissing(binary)
    /\ cpc' = "failed"
    /\ openError' = BinaryError(impl, binary)
    /\ UNCHANGED <<impl, use_tcp, iter, retry, history, reader, writer, process>>
    /\ UNCHANGED <<callVars, streamVars, codecVars, lifeVars>>
    /\ UNCHANGED clientVars

\* process.py:57-62, server.py:116-125, new.py:114-119: open_connection
\* succeeds, the socket's streams become the reader and the writer, and the
\* open returns
ConnectOk ==
    /\ cpc = "connect"
    /\ history' = Append(history, "ok")
    /\ reader' = "socket"
    /\ writer' = "socket"
    /\ cpc' = "open"
    /\ retry' = IF impl = "process" THEN retry ELSE iter
    /\ UNCHANGED <<impl, use_tcp, iter, process, openError>>
    /\ UNCHANGED <<callVars, streamVars, codecVars, lifeVars>>
    /\ UNCHANGED clientVars

\* process.py:63-64, server.py:127-130, new.py:120-122: open_connection
\* raises ConnectionRefusedError, which is caught; the task sleeps 1 second
ConnectRefused ==
    /\ cpc = "connect"
    /\ history' = Append(history, "refused")
    /\ cpc' = "sleep"
    /\ retry' = IF impl = "process" THEN retry ELSE iter
    /\ UNCHANGED <<impl, use_tcp, iter, reader, writer, process, openError>>
    /\ UNCHANGED <<callVars, streamVars, codecVars, lifeVars>>
    /\ UNCHANGED clientVars

\* open_connection raises another OSError, which no except clause catches:
\* it leaves the open at once
ConnectError ==
    /\ cpc = "connect"
    /\ history' = Append(history, "error")
    /\ IF IsRetried("error")
       THEN cpc' = "sleep" /\ UNCHANGED openError
       ELSE cpc' = "failed" /\ openError' = "OSError"
    /\ retry' = IF impl = "process" THEN retry ELSE iter
    /\ UNCHANGED <<impl, use_tcp, iter, reader, writer, process>>
    /\ UNCHANGED <<callVars, streamVars, codecVars, lifeVars>>
    /\ UNCHANGED clientVars

\* the sleep is over and the iteration ends.
\* process.py:55, 65-67: the next iteration, or after the last one
\*   ConnectionRefusedError is raised.
\* server.py:131-148: retry += 1; ServerTCPConnectionError is raised when
\*   retry == retry_attempts, else the next iteration.
\* new.py:123-127: retry += 1; the next iteration, or after the last one
\*   ConnectionRefusedError is raised if retry == retry_attempts.
SleepDone ==
    /\ cpc = "sleep"
    /\ iter' = iter + 1
    /\ retry' = IF impl = "process" THEN retry ELSE retry + 1
    /\ CASE impl = "process" ->
              IF MoreAttempts(iter + 1)
              THEN cpc' = "connect" /\ UNCHANGED openError
              ELSE cpc' = "failed" /\ openError' = "ConnectionRefusedError"
         [] impl = "server" ->
              IF retry + 1 = retry_attempts
              THEN cpc' = "failed" /\ openError' = "ServerTCPConnectionError"
              ELSE IF MoreAttempts(iter + 1)
              THEN cpc' = "connect" /\ UNCHANGED openError
              ELSE cpc' = "open" /\ UNCHANGED openError
         [] impl = "new" ->
              IF MoreAttempts(iter + 1)
              THEN cpc' = "connect" /\ UNCHANGED openError
              ELSE IF retry + 1 = retry_attempts
              THEN cpc' = "failed" /\ openError' = "ConnectionRefusedError"
              ELSE cpc' = "open" /\ UNCHANGED openError
    /\ UNCHANGED <<impl, use_tcp, history, reader, writer, process>>
    /\ UNCHANGED <<callVars, streamVars, codecVars, lifeVars>>
    /\ UNCHANGED clientVars

\* the child process exits on its own
ProcessExits ==
    /\ process = "running"
    /\ process' = "exited"
    /\ UNCHANGED <<impl, use_tcp, cpc, iter, retry, history, reader, writer, openError>>
    /\ UNCHANGED <<callVars, streamVars, codecVars, lifeVars>>
    /\ UNCHANGED clientVars

\* the steps of close() / cleanup_server() from the returncode test on:
\* terminate() when the child has not exited, then process.wait()
TerminateAndWait(p) ==
    (IF NeedsTerminate(p) THEN <<"terminate">> ELSE <<>>) \o <<"wait">>

\* process.py:69-80, CodyProcessManager.close up to its only await: nothing
\* when there is no process; else the writer is closed in TCP mode, the
\* child is sent the termination signal when it has not exited, and the
\* task waits for its exit (a wait on an exited child returns at once)
Close ==
    /\ impl = "process"
    /\ cpc \in {"start", "open", "failed"}
    /\ lpc \in {"ready", "returned"}
    /\ closeCalls < MaxCloses
    /\ closeCalls' = closeCalls + 1
    /\ closeError' = "none"
    /\ IF ~HasProcess(process)
       THEN /\ lpc' = "returned"
            /\ closeLog' = <<>>
            /\ UNCHANGED <<signals, writerClosed>>
       ELSE /\ writerClosed' = (writerClosed \/ use_tcp)
            /\ signals' = IF NeedsTerminate(process) THEN signals + 1 ELSE signals
            /\ closeLog' = (IF use_tcp THEN <<"closeWriter">> ELSE <<>>)
                              \o TerminateAndWait(process)
            /\ lpc' = IF WaitReturns(process) THEN "returned" ELSE "wait"
    /\ UNCHANGED <<binary, connVars, callVars, streamVars, codecVars>>
    /\ UNCHANGED clientVars

\* process.py:80, server.py:158, new.py:170: the awaited process.wait() returns
\* and with it close() / cleanup_server()
WaitDone ==
    /\ lpc = "wait"
    /\ WaitReturns(process)
    /\ lpc' = "returned"
    /\ UNCHANGED <<binary, signals, writerClosed, closeLog, closeCalls, closeError>>
    /\ UNCHANGED <<connVars, callVars, streamVars, codecVars>>
    /\ UNCHANGED clientVars

\* server.py:155 and new.py:167 with messaging.py:31-45: cleanup_server hands
\* the frame of the shutdown request to writer.write and awaits the drain
CleanupSend ==
    /\ impl \in {"server", "new"}
    /\ cpc = "open"
    /\ lpc \in {"ready", "returned", "raised"}
    /\ closeCalls < MaxCloses
    /\ closeCalls' = closeCalls + 1
    /\ closeError' = "none"
    /\ LET message == Request(MESSAGE_ID, "shutdown", Null)
       IN /\ lastWrite' = EncodeFrame(message)
          /\ wireIds' = IF connLost THEN wireIds ELSE Append(wireIds, message.id)
    /\ closeLog' = <<"write">>
    /\ lpc' = "shutdownDrain"
    /\ UNCHANGED <<MESSAGE_ID, tasks, pc, awaited, clen, outcome, ncalls, connLost,
                   answered, nFrames, nNotifs, ownRead>>
    /\ UNCHANGED <<binary, signals, writerClosed>>
    /\ UNCHANGED <<connVars, streamVars, codecVars>>
    /\ UNCHANGED clientVars

\* messaging.py:46-47, then server.py:156-158 / new.py:168-170: the drain
\* returns, the counter is incremented, the child is sent the termination
\* signal when it has not exited, and the task waits for its exit
CleanupDrainOk ==
    /\ lpc = "shutdownDrain"
    /\ ~connLost
    /\ MESSAGE_ID' = NextMessageId(MESSAGE_ID)
    /\ signals' = IF NeedsTerminate(process) THEN signals + 1 ELSE signals
    /\ closeLog' = closeLog \o TerminateAndWait(process)
    /\ lpc' = IF WaitReturns(process) THEN "returned" ELSE "wait"
    /\ UNCHANGED <<tasks, pc, awaited, clen, outcome, ncalls, wireIds, lastWrite, connLost,
                   answered, nFrames, nNotifs, ownRead>>
    /\ UNCHANGED <<binary, writerClosed, closeCalls, closeError>>
    /\ UNCHANGED <<connVars, streamVars, codecVars>>
    /\ UNCHANGED clientVars

\* messaging.py:46: the drain raises on a lost connection and the exception
\* leaves cleanup_server; lines 156-158 of server.py are not reached
CleanupDrainFail ==
    /\ lpc = "shutdownDrain"
    /\ connLost
    /\ lpc' = "raised"
    /\ closeError' = "ConnectionResetError"
    /\ UNCHANGED <<binary, signals, writerClosed, closeLog, closeCalls>>
    /\ UNCHANGED <<connVars, callVars, streamVars, codecVars>>
    /\ UNCHANGED clientVars

\* the write side of the open connection is lost (the child closed its end)
WriteSideLost ==
    /\ cpc = "open"
    /\ lpc \in {"ready", "shutdownDrain"}
    /\ ~connLost
    /\ connLost' = TRUE
    /\ UNCHANGED <<MESSAGE_ID, tasks, pc, awaited, clen, outcome, ncalls, wireIds,
                   lastWrite, answered, nFrames, nNotifs, ownRead>>
    /\ UNCHANGED <<connVars, streamVars, codecVars, lifeVars>>
    /\ UNCHANGED clientVars

NextConn ==
    \/ Spawn
    \/ SpawnFails
    \/ ConnectOk
    \/ ConnectRefused
    \/ ConnectError
    \/ SleepDone
    \/ ProcessExits
    \/ Close
    \/ WaitDone
    \/ CleanupSend
    \/ CleanupDrainOk
    \/ CleanupDrainFail
    \/ WriteSideLost

SpecConn == InitConn /\ [][NextConn]_vars

(***************************************************************************)
(* The client layer (specification SpecClient): the handshake of           *)
(* initialize_agent / initialize, the repository lookup and                *)
(* set_context_repo, on an open stdio connection.  Three clients do this:  *)
(* CodyAgent over CodyServer (agent.py, server.py), CodyAgentClient and    *)
(* its Chat (new.py), and the CodyServer / CodyAgent pair of cody_py.py.   *)
(* request_response is taken as a whole here: it writes one request with   *)
(* the current id and ends with a result, with None after a timeout, or    *)
(* with an exception.                                                      *)
(***************************************************************************)
Clients == {"agent", "new", "cody_py"}

\* client operations called after the handshake
MaxOps == 3

\* the lists of repository names a caller passes
RepoLists == {<<>>, <<"r1">>, <<"r2">>, <<"r1", "r2">>, <<"r2", "r1">>}

Range(list) == {list[i] : i \in 1..Len(list)}

\* agent.py:111, new.py:200, cody_py.py:280:
\* `[x for x in repos if x not in self.repos]`
ReposToLookup(list, cache) ==
    LET NotCached(x) == cache[x] = "absent"
    IN SelectSeq(list, NotCached)

\* agent.py:131, new.py:211, cody_py.py:300:
\* `[self.repos[x] for x in repos if self.repos[x]]`
FoundRepos(list, cache) ==
    LET IsFound(x) == cache[x] = "found"
    IN SelectSeq(list, IsFound)

\* agent.py:123-129, new.py:203-209: every repository of the response is
\* stored under its name; every name of the argument that is still missing
\* is stored as None
CacheAfter(cache, list, found) ==
    [x \in RepoNames |->
        IF x \in found THEN "found"
        ELSE IF x \in Range(list) /\ cache[x] = "absent" THEN "None"
        ELSE cache[x]]

\* a set_context_repo without its early return
SameContextNever(current, list) == FALSE

\* agent.py:150, chat.py:71, new.py:231: `if self.current_repo_context == repos`
SameContext(current, list) == current = list

\* agent.py:55 calls self.cleanup_server(), but class CodyAgent (agent.py:12-299)
\* defines no such method (it is a method of its CodyServer); new.py:160 and
\* cody_py.py:217 define it on the object that calls it
HasCleanup(i) == i # "agent"

\* new.py:156 raises SystemError; cody_py.py:214 calls sys.exit(1)
HandshakeError(i) == IF i = "new" THEN "SystemError" ELSE "SystemExit"

InitClient ==
    /\ CallIdle
    /\ CodecIdle
    /\ impl \in Clients
    /\ use_tcp = FALSE
    /\ cpc = "open"
    /\ iter = 0
    /\ retry = 0
    /\ history = <<>>
    /\ reader = "stdout"
    /\ writer = "stdin"
    /\ process = "running"
    /\ openError = "none"
    /\ binary = "present"
    /\ lpc = "ready"
    /\ signals = 0
    /\ writerClosed = FALSE
    /\ closeLog = <<>>
    /\ closeCalls = 0
    /\ closeError = "none"
    /\ connBase = 0
    /\ kpc = "start"
    /\ authReply = "unknown"
    /\ clientError = "none"
    /\ repos = [x \in RepoNames |-> "absent"]
    /\ current_repo_context = <<>>
    /\ sent = <<>>
    /\ pending = NoPending
    /\ nops = 0
    /\ lastCall = NoCall
    /\ lastReturn = NoReturn
    /\ leftBy = "none"

\* the messages a caller passes to chat
ChatMessages == {"/quit", "hello"}

\* the texts of the last message of a chat/submitMessage result
ReplyTexts == {"", "answer"}

\* a chat that takes the bare word for the command
IsQuitWord(message) == message = "quit"

\* agent.py:261, cody_py.py:430: `if message == "/quit"`
IsQuit(message) == message = "/quit"

\* agent.py:262, cody_py.py:431: `return "", []`
QuitReturn == [kind |-> "tuple", response |-> "", context_files |-> <<>>]

\* agent.py:284-298: with an empty text chat returns its failure text, a
\* str; else the pair of the text and the context files (none are asked for)
ChatReturn(text) ==
    IF text = ""
    THEN [kind |-> "str", response |-> "Failed to submit chat message",
          context_files |-> <<>>]
    ELSE [kind |-> "tuple", response |-> text, context_files |-> <<>>]

\* messaging.py:31-47 on a connection that accepts the frame: the request is
\* written with the current id and the counter is incremented
RpcWritten(method, names) ==
    /\ wireIds' = Append(wireIds, MESSAGE_ID)
    /\ MESSAGE_ID' = NextMessageId(MESSAGE_ID)
    /\ sent' = Append(sent, <<method, names>>)

\* the request_response of a client operation up to its wait for frames; on
\* a connection that is lost the drain raises and the operation ends
ClientSend(method, names, op, list) ==
    IF connLost
    THEN /\ clientError' = "ConnectionResetError"
         /\ kpc' = "ready"
         /\ pending' = NoPending
         /\ UNCHANGED <<wireIds, MESSAGE_ID, sent>>
    ELSE /\ RpcWritten(method, names)
         /\ clientError' = "none"
         /\ kpc' = "rpcWait"
         /\ pending' = [op |-> op, list |-> list]

\* agent.py:58-65, new.py:150, cody_py.py:185-192: the initialize request is sent
InitializeSend ==
    /\ kpc = "start"
    /\ IF connLost
       THEN /\ kpc' = "failed"
            /\ clientError' = "ConnectionResetError"
            /\ UNCHANGED <<wireIds, MESSAGE_ID, sent>>
       ELSE /\ RpcWritten("initialize", <<>>)
            /\ kpc' = "initWait"
            /\ UNCHANGED clientError
    /\ UNCHANGED <<tasks, pc, awaited, clen, outcome, ncalls, lastWrite, connLost,
                   answered, nFrames, nNotifs, ownRead>>
    /\ UNCHANGED <<connBase, authReply, repos, current_repo_context, pending, nops, lastCall,
                   lastReturn, leftBy>>
    /\ UNCHANGED <<streamVars, codecVars, connVars, lifeVars>>

\* agent.py:41-56 and 67, new.py:151-158, cody_py.py:194-215: the result of
\* initialize arrives.  An authenticated client is ready.  Otherwise
\* cleanup_server is called: in agent.py the attribute lookup fails; in
\* new.py and cody_py.py the shutdown request is written and its drain is
\* awaited (new.py:167, cody_py.py:222).
InitializeReply(auth) ==
    /\ kpc = "initWait"
    /\ authReply' = IF auth THEN "yes" ELSE "no"
    /\ IF auth
       THEN /\ kpc' = "ready"
            /\ UNCHANGED <<wireIds, sent, clientError, lpc, closeLog, closeCalls, closeError>>
       ELSE IF ~HasCleanup(impl)
       THEN /\ kpc' = "failed"
            /\ clientError' = "AttributeError"
            /\ UNCHANGED <<wireIds, sent, lpc, closeLog, closeCalls, closeError>>
       ELSE /\ kpc' = "initCleanup"
            /\ wireIds' = IF connLost THEN wireIds ELSE Append(wireIds, MESSAGE_ID)
            /\ sent' = Append(sent, <<"shutdown", <<>> >>)
            /\ lpc' = "shutdownDrain"
            /\ closeLog' = <<"write">>
            /\ closeCalls' = closeCalls + 1
            /\ closeError' = "none"
            /\ UNCHANGED clientError
    /\ UNCHANGED <<MESSAGE_ID, tasks, pc, awaited, clen, outcome, ncalls, lastWrite, connLost,
                   answered, nFrames, nNotifs, ownRead>>
    /\ UNCHANGED <<connBase, repos, current_repo_context, pending, nops, lastCall, lastReturn,
                   leftBy>>
    /\ UNCHANGED <<binary, signals, writerClosed>>
    /\ UNCHANGED <<streamVars, codecVars, connVars>>

\* the initialize call times out and returns None (messaging.py:302);
\* model_validate(None) raises (agent.py:42, new.py:151, cody_py.py:194)
InitializeNone ==
    /\ kpc = "initWait"
    /\ kpc' = "failed"
    /\ clientError' = "ValidationError"
    /\ UNCHANGED <<connBase, authReply, repos, current_repo_context, sent, pending, nops,
                   lastCall, lastReturn, leftBy>>
    /\ UNCHANGED <<callVars, streamVars, codecVars, connVars, lifeVars>>

\* new.py:155-156, cody_py.py:213-214: cleanup_server has returned and the
\* failure is reported; an exception of cleanup_server is reported as it is
InitializeReports ==
    /\ kpc = "initCleanup"
    /\ lpc \in {"returned", "raised"}
    /\ kpc' = "failed"
    /\ clientError' = IF lpc = "raised" THEN closeError ELSE HandshakeError(impl)
    /\ UNCHANGED <<connBase, authReply, repos, current_repo_context, sent, pending, nops,
                   lastCall, lastReturn, leftBy>>
    /\ UNCHANGED <<callVars, streamVars, codecVars, connVars, lifeVars>>

\* agent.py:91-131, new.py:184-211: _lookup_repo_ids is called; without a
\* name to look up it returns from the cache, else the request is sent
LookupCall(list) ==
    /\ kpc = "ready"
    /\ nops < MaxOps
    /\ nops' = nops + 1
    /\ lastCall' = [op |-> "_lookup_repo_ids", list |-> list, same |-> FALSE,
                    before |-> current_repo_context]
    /\ LET repos_to_lookup == ReposToLookup(list, repos)
       IN IF repos_to_lookup = <<>>
          THEN /\ clientError' = "none"
               /\ UNCHANGED <<wireIds, MESSAGE_ID, sent, kpc, pending>>
          ELSE ClientSend("graphql/getRepoIds", repos_to_lookup, "lookup", list)
    /\ UNCHANGED <<tasks, pc, awaited, clen, outcome, ncalls, lastWrite, connLost,
                   answered, nFrames, nNotifs, ownRead>>
    /\ UNCHANGED <<connBase, authReply, repos, current_repo_context, lastReturn, leftBy>>
    /\ UNCHANGED <<streamVars, codecVars, connVars, lifeVars>>

\* agent.py:133-176, chat.py:61-86, new.py:222-246: set_context_repo is
\* called; an equal list returns at once; else the list is recorded, the
\* lookup is run and, when it needs no request, the context is sent
SetContextCall(list) ==
    /\ kpc = "ready"
    /\ nops < MaxOps
    /\ nops' = nops + 1
    /\ lastCall' = [op |-> "set_context_repo", list |-> list,
                    same |-> (current_repo_context = list),
                    before |-> current_repo_context]
    /\ IF SameContext(current_repo_context, list)
       THEN /\ clientError' = "none"
            /\ UNCHANGED <<wireIds, MESSAGE_ID, sent, kpc, pending, current_repo_context>>
       ELSE /\ current_repo_context' = list
            /\ LET repos_to_lookup == ReposToLookup(list, repos)
               IN IF repos_to_lookup = <<>>
                  THEN ClientSend("webview/receiveMessage", FoundRepos(list, repos),
                                  "ctxSend", list)
                  ELSE ClientSend("graphql/getRepoIds", repos_to_lookup, "ctxLookup", list)
    /\ UNCHANGED <<tasks, pc, awaited, clen, outcome, ncalls, lastWrite, connLost,
                   answered, nFrames, nNotifs, ownRead>>
    /\ UNCHANGED <<connBase, authReply, repos, lastReturn, leftBy>>
    /\ UNCHANGED <<streamVars, codecVars, connVars, lifeVars>>

\* the awaited request_response returns the result of a response.
\* agent.py:123-131, new.py:203-211: a lookup stores the repositories the
\* server returned (found) and None for the rest; agent.py:161-176,
\* new.py:238-246: set_context_repo goes on to send the context; the
\* result of webview/receiveMessage is dropped
RpcResult(found) ==
    /\ kpc = "rpcWait"
    /\ pending.op \in {"lookup", "ctxLookup", "ctxSend"}
    /\ CASE pending.op = "lookup" ->
              /\ repos' = CacheAfter(repos, pending.list, found)
              /\ kpc' = "ready"
              /\ pending' = NoPending
              /\ UNCHANGED <<wireIds, MESSAGE_ID, sent, clientError>>
         [] pending.op = "ctxLookup" ->
              /\ repos' = CacheAfter(repos, pending.list, found)
              /\ ClientSend("webview/receiveMessage",
                            FoundRepos(pending.list, CacheAfter(repos, pending.list, found)),
                            "ctxSend", pending.list)
         [] pending.op = "ctxSend" ->
              /\ found = {}
              /\ kpc' = "ready"
              /\ pending' = NoPending
              /\ UNCHANGED <<wireIds, MESSAGE_ID, sent, clientError, repos>>
    /\ UNCHANGED <<tasks, pc, awaited, clen, outcome, ncalls, lastWrite, connLost,
                   answered, nFrames, nNotifs, ownRead>>
    /\ UNCHANGED <<connBase, authReply, current_repo_context, nops, lastCall, lastReturn, leftBy>>
    /\ UNCHANGED <<streamVars, codecVars, connVars, lifeVars>>

\* the awaited request_response times out and returns None (messaging.py:302):
\* `response["repos"]` raises TypeError (agent.py:123, new.py:203) and the
\* cache is not written; the None of webview/receiveMessage is dropped; for
\* the None of chat/submitMessage _show_last_message returns ("", "", [])
\* (messaging.py:199 and 225) and chat returns its failure text
\* (agent.py:287-293)
RpcNone ==
    /\ kpc = "rpcWait"
    /\ kpc' = "ready"
    /\ pending' = NoPending
    /\ clientError' = IF pending.op \in {"ctxSend", "chat"} THEN "none" ELSE "TypeError"
    /\ lastReturn' = IF pending.op = "chat" THEN ChatReturn("") ELSE lastReturn
    /\ UNCHANGED <<connBase, authReply, repos, current_repo_context, sent, nops, lastCall,
                   leftBy>>
    /\ UNCHANGED <<callVars, streamVars, codecVars, connVars, lifeVars>>

\* the awaited request_response raises (the stream ended): the exception
\* leaves the operation
RpcRaises ==
    /\ kpc = "rpcWait"
    /\ kpc' = "ready"
    /\ pending' = NoPending
    /\ clientError' = "IncompleteReadError"
    /\ UNCHANGED <<connBase, authReply, repos, current_repo_context, sent, nops, lastCall,
                   lastReturn, leftBy>>
    /\ UNCHANGED <<callVars, streamVars, codecVars, connVars, lifeVars>>

\* agent.py:238-298, cody_py.py:407-467: chat is called.  "/quit" returns the
\* empty pair at once; any other message is submitted with
\* chat/submitMessage.  lastCall.list holds the message.
ChatCall(message) ==
    /\ kpc = "ready"
    /\ impl \in {"agent", "cody_py"}
    /\ nops < MaxOps
    /\ nops' = nops + 1
    /\ lastCall' = [op |-> "chat", list |-> <<message>>, same |-> FALSE,
                    before |-> current_repo_context]
    /\ IF IsQuit(message)
       THEN /\ lastReturn' = QuitReturn
            /\ clientError' = "none"
            /\ UNCHANGED <<wireIds, MESSAGE_ID, sent, kpc, pending>>
       ELSE /\ ClientSend("chat/submitMessage", <<>>, "chat", <<message>>)
            /\ lastReturn' = NoReturn
    /\ UNCHANGED <<tasks, pc, awaited, clen, outcome, ncalls, lastWrite, connLost,
                   answered, nFrames, nNotifs, ownRead>>
    /\ UNCHANGED <<connBase, authReply, repos, current_repo_context, leftBy>>
    /\ UNCHANGED <<streamVars, codecVars, connVars, lifeVars>>

\* agent.py:275-298: the result of chat/submitMessage arrives, a transcript
\* whose last message has the given text
ChatResult(text) ==
    /\ kpc = "rpcWait"
    /\ pending.op = "chat"
    /\ kpc' = "ready"
    /\ pending' = NoPending
    /\ lastReturn' = ChatReturn(text)
    /\ UNCHANGED <<connBase, authReply, clientError, repos, current_repo_context, sent, nops,
                   lastCall, leftBy>>
    /\ UNCHANGED <<callVars, streamVars, codecVars, connVars, lifeVars>>

NextClient ==
    \/ InitializeSend
    \/ \E auth \in BOOLEAN : InitializeReply(auth)
    \/ InitializeNone
    \/ InitializeReports
    \/ CleanupDrainOk
    \/ CleanupDrainFail
    \/ WaitDone
    \/ ProcessExits
    \/ WriteSideLost
    \/ \E list \in RepoLists : LookupCall(list)
    \/ \E list \in RepoLists : SetContextCall(list)
    \/ \E found \in SUBSET RepoNames : RpcResult(found)
    \/ RpcNone
    \/ RpcRaises
    \/ \E message \in ChatMessages : ChatCall(message)
    \/ \E text \in ReplyTexts : ChatResult(text)

SpecClient == InitClient /\ [][NextClient]_vars

(***************************************************************************)
(* The commands of the command line (specification SpecCli): ask_question  *)
(* and start_chat of cli.py.  Each creates a chat session, asks inside a   *)
(* try block and closes the agent in its finally clause.  The agent these  *)
(* commands are written against (CodyAgent.init, new_chat returning a      *)
(* Chat, rpc, close) is taken by its interface: creating the session       *)
(* writes the initialize and chat/new requests, ask writes one             *)
(* chat/submitMessage request, close() is counted in closeCalls.           *)
(***************************************************************************)
Commands == {"ask_question", "start_chat"}

\* lines read by start_chat's input()
MaxInputs == 3

\* what the user types at the prompt of start_chat
InputLines == {"", "exit", "Exit now", "hello"}

\* how a command leaves its try block
Ways == {"normal", "exit", "KeyboardInterrupt", "EOFError", "exception"}

\* cli.py:160: `question.lower().startswith("exit")`
IsExit(line) == line \in {"exit", "Exit now"}

\* cli.py:159: `if question := input("Q: ")`, an empty line is falsy
IsQuestion(line) == line # ""

\* a command that closes the agent after its try block, not in a finally
\* clause: an exception passes the close by
ClosesAgentOnReturn(way) == way \in {"normal", "exit"}

\* cli.py:136-137 and 168-169: `finally: loop.run_until_complete(chat.agent.close())`
ClosesAgent(way) == TRUE

InitCli ==
    /\ CallIdle
    /\ CodecIdle
    /\ impl \in Commands
    /\ use_tcp = FALSE
    /\ cpc = "open"
    /\ iter = 0
    /\ retry = 0
    /\ history = <<>>
    /\ reader = "stdout"
    /\ writer = "stdin"
    /\ process = "running"
    /\ openError = "none"
    /\ binary = "present"
    /\ lpc = "ready"
    /\ signals = 0
    /\ writerClosed = FALSE
    /\ closeLog = <<>>
    /\ closeCalls = 0
    /\ closeError = "none"
    /\ connBase = 0
    /\ kpc = "create"
    /\ authReply = "unknown"
    /\ clientError = "none"
    /\ repos = [x \in RepoNames |-> "absent"]
    /\ current_repo_context = <<>>
    /\ sent = <<>>
    /\ pending = NoPending
    /\ nops = 0
    /\ lastCall = NoCall
    /\ lastReturn = NoReturn
    /\ leftBy = "none"

\* what a step of a command leaves alone besides the requests and its own position
CliFrame ==
    /\ UNCHANGED <<tasks, pc, awaited, clen, outcome, ncalls, lastWrite, connLost,
                   answered, nFrames, nNotifs, ownRead>>
    /\ UNCHANGED <<connBase, authReply, repos, current_repo_context, lastReturn>>
    /\ UNCHANGED <<streamVars, codecVars, connVars>>
    /\ UNCHANGED <<binary, lpc, signals, writerClosed, closeLog, closeError>>

\* the try block is left the given way: control is in the finally clause
Leave(way, exc) ==
    /\ leftBy' = way
    /\ clientError' = exc
    /\ kpc' = "finally"
    /\ pending' = NoPending

\* cli.py:132 and 155 (create_chat, cli.py:85-110): the agent is initialised
\* and a chat session is created, before the try block is entered
CreateChat ==
    /\ kpc = "create"
    /\ wireIds' = wireIds \o <<MESSAGE_ID, NextMessageId(MESSAGE_ID)>>
    /\ MESSAGE_ID' = NextMessageId(NextMessageId(MESSAGE_ID))
    /\ sent' = sent \o << <<"initialize", <<>> >>, <<"chat/new", <<>> >> >>
    /\ kpc' = IF impl = "ask_question" THEN "ask" ELSE "input"
    /\ UNCHANGED <<clientError, pending, nops, lastCall, leftBy, closeCalls>>
    /\ CliFrame

\* create_chat raises: the command ends before its try block, without a session
CreateChatFails ==
    /\ kpc = "create"
    /\ kpc' = "exited"
    /\ clientError' = "SystemExit"
    /\ UNCHANGED <<wireIds, MESSAGE_ID, sent, pending, nops, lastCall, leftBy, closeCalls>>
    /\ CliFrame

\* cli.py:134 and 162 with chat.py:28-57: chat.ask sends chat/submitMessage
AskSend(question) ==
    /\ RpcWritten("chat/submitMessage", <<>>)
    /\ kpc' = "asking"
    /\ pending' = [op |-> "ask", list |-> <<question>>]
    /\ UNCHANGED <<clientError, leftBy>>

\* cli.py:134: ask_question asks the message of the arguments
AskQuestion ==
    /\ kpc = "ask"
    /\ AskSend("hello")
    /\ UNCHANGED <<nops, lastCall, closeCalls>>
    /\ CliFrame

\* cli.py:157-165: start_chat reads a line; exit leaves the loop, a question
\* is asked, an empty line is answered with a hint and the loop goes on
ReadLine(line) ==
    /\ kpc = "input"
    /\ nops < MaxInputs
    /\ nops' = nops + 1
    /\ lastCall' = [op |-> "input", list |-> <<line>>, same |-> FALSE, before |-> <<>>]
    /\ IF ~IsQuestion(line)
       THEN UNCHANGED <<wireIds, MESSAGE_ID, sent, kpc, pending, clientError, leftBy>>
       ELSE IF IsExit(line)
       THEN /\ Leave("exit", "none")
            /\ UNCHANGED <<wireIds, MESSAGE_ID, sent>>
       ELSE AskSend(line)
    /\ UNCHANGED closeCalls
    /\ CliFrame

\* cli.py:166-167: input() raises KeyboardInterrupt or EOFError; start_chat
\* catches both
InputInterrupted(exc) ==
    /\ kpc = "input"
    /\ Leave(exc, "none")
    /\ UNCHANGED <<wireIds, MESSAGE_ID, sent, nops, lastCall, closeCalls>>
    /\ CliFrame

\* cli.py:134-135 and 162-163: ask returns a Transcript and its answer is
\* printed; ask_question is done, start_chat reads the next line
AskReturns ==
    /\ kpc = "asking"
    /\ IF impl = "ask_question"
       THEN Leave("normal", "none")
       ELSE /\ kpc' = "input"
            /\ pending' = NoPending
            /\ UNCHANGED <<clientError, leftBy>>
    /\ UNCHANGED <<wireIds, MESSAGE_ID, sent, nops, lastCall, closeCalls>>
    /\ CliFrame

\* chat.py:57: ask raises (the stream has ended, or the request has timed
\* out and Transcript(**None) raises TypeError); neither command catches it
AskRaises(exc) ==
    /\ kpc = "asking"
    /\ Leave("exception", exc)
    /\ UNCHANGED <<wireIds, MESSAGE_ID, sent, nops, lastCall, closeCalls>>
    /\ CliFrame

\* Ctrl-C while the loop runs ask: run_until_complete raises
\* KeyboardInterrupt, which start_chat catches (cli.py:166) and ask_question
\* lets through
AskInterrupted ==
    /\ kpc = "asking"
    /\ Leave("KeyboardInterrupt",
             IF impl = "ask_question" THEN "KeyboardInterrupt" ELSE "none")
    /\ UNCHANGED <<wireIds, MESSAGE_ID, sent, nops, lastCall, closeCalls>>
    /\ CliFrame

\* cli.py:136-137 and 168-169: the finally clause runs chat.agent.close(),
\* then the command ends
Finally ==
    /\ kpc = "finally"
    /\ closeCalls' = IF ClosesAgent(leftBy) THEN closeCalls + 1 ELSE closeCalls
    /\ kpc' = "exited"
    /\ UNCHANGED <<wireIds, MESSAGE_ID, sent, pending, nops, lastCall, leftBy, clientError>>
    /\ CliFrame

NextCli ==
    \/ CreateChat
    \/ CreateChatFails
    \/ AskQuestion
    \/ \E line \in InputLines : ReadLine(line)
    \/ \E exc \in {"KeyboardInterrupt", "EOFError"} : InputInterrupted(exc)
    \/ AskReturns
    \/ \E exc \in {"TypeError", "IncompleteReadError"} : AskRaises(exc)
    \/ AskInterrupted
    \/ Finally

SpecCli == InitCli /\ [][NextCli]_vars

(***************************************************************************)
(* The main flow of the legacy client (specification SpecLegacy):          *)
(* cody_agent_py.py:48-87 over a stdio connection.  Its request counter,   *)
(* the global message_id (cody_agent_py.py:46), is held in MESSAGE_ID.     *)
(* kpc is the position of main; pending.op is the request whose responses  *)
(* are being read.                                                         *)
(***************************************************************************)
\* notification frames the peer writes during one run of main
MaxSkipped == 2

\* what the user types at the two prompts of main
LegacyTexts == {"hi", "bye"}

\* the two calls of cleanup_server_connection in main
CleanupSites == {"unauthenticated", "end"}

\* cody_agent_py.py:67 calls the coroutine function without `await`: the
\* coroutine object is dropped and its body never runs; :87 awaits it
CleanupAwaited(site) == site = "end"

\* cody_agent_py.py:189: `message_id += 1`
LegacyNextId(mid) == mid + 1

InitLegacy ==
    /\ CallIdle
    /\ CodecIdle
    /\ impl = "cody_agent_py"
    /\ use_tcp = FALSE
    /\ cpc = "open"
    /\ iter = 0
    /\ retry = 0
    /\ history = <<>>
    /\ reader = "stdout"
    /\ writer = "stdin"
    /\ process = "running"
    /\ openError = "none"
    /\ binary = "present"
    /\ lpc = "ready"
    /\ signals = 0
    /\ writerClosed = FALSE
    /\ closeLog = <<>>
    /\ closeCalls = 0
    /\ closeError = "none"
    /\ connBase = 0
    /\ kpc = "main"
    /\ authReply = "unknown"
    /\ clientError = "none"
    /\ repos = [x \in RepoNames |-> "absent"]
    /\ current_repo_context = <<>>
    /\ sent = <<>>
    /\ pending = NoPending
    /\ nops = 0
    /\ lastCall = NoCall
    /\ lastReturn = NoReturn
    /\ leftBy = "none"

\* what a step of main leaves alone besides the requests, the child process
\* and its own position
LegacyFrame ==
    /\ UNCHANGED <<tasks, pc, awaited, clen, outcome, ncalls, lastWrite, connLost,
                   answered, nFrames, ownRead>>
    /\ UNCHANGED <<connBase, repos, current_repo_context, lastCall, lastReturn, leftBy>>
    /\ UNCHANGED <<streamVars, codecVars>>
    /\ UNCHANGED <<impl, use_tcp, cpc, iter, retry, history, reader, writer, openError>>
    /\ UNCHANGED <<binary, lpc, writerClosed, closeError>>

\* cody_agent_py.py:172-189, send_jsonrpc_request: the frame is written with
\* the current message_id, the drain is awaited and the counter is
\* incremented; towards a child that has exited the drain raises and the
\* exception leaves main
LegacySend(method, text, next) ==
    IF process = "exited"
    THEN /\ kpc' = "returned"
         /\ clientError' = "ConnectionResetError"
         /\ pending' = NoPending
         /\ UNCHANGED <<wireIds, MESSAGE_ID, sent>>
    ELSE /\ wireIds' = Append(wireIds, MESSAGE_ID)
         /\ MESSAGE_ID' = LegacyNextId(MESSAGE_ID)
         /\ sent' = Append(sent, <<method, text>>)
         /\ kpc' = next
         /\ pending' = [op |-> method, list |-> text]
         /\ UNCHANGED clientError

\* cody_agent_py.py:61 and 118-120: main sends initialize
LegacyInitialize ==
    /\ kpc = "main"
    /\ LegacySend("initialize", <<>>, "wait")
    /\ UNCHANGED <<authReply, nops, nNotifs, process, signals, closeLog, closeCalls>>
    /\ LegacyFrame

\* cody_agent_py.py:191-195 with 124, 133 and 150: a frame without a result
\* is read and passed over
LegacySkip ==
    /\ kpc = "wait"
    /\ nNotifs < MaxSkipped
    /\ nNotifs' = nNotifs + 1
    /\ UNCHANGED <<wireIds, MESSAGE_ID, sent, kpc, pending, clientError, authReply, nops,
                   process, signals, closeLog, closeCalls>>
    /\ LegacyFrame

\* cody_agent_py.py:63-68: the branch of main on server_info.authenticated.
\* Unauthenticated, the cleanup runs only if its coroutine is awaited;
\* main returns after it
AfterInitialize(auth) ==
    IF auth THEN "chatNew"
    ELSE IF CleanupAwaited("unauthenticated") THEN "cleanup"
    ELSE "returned"

\* a response with a result is read.  cody_agent_py.py:121-128: the result
\* of initialize is the ServerInfo; :133-137: the result of chat/new is
\* the chat id; :150-153: a result of chat/submitMessage is shown and the
\* loop goes on reading
LegacyResult(auth) ==
    /\ kpc = "wait"
    /\ CASE pending.op = "initialize" ->
              /\ authReply' = IF auth THEN "yes" ELSE "no"
              /\ kpc' = AfterInitialize(auth)
              /\ leftBy' = IF auth THEN leftBy ELSE "unauthenticated"
              /\ pending' = NoPending
         [] pending.op = "chat/new" ->
              /\ auth
              /\ kpc' = "input"
              /\ pending' = NoPending
              /\ UNCHANGED <<authReply, leftBy>>
         [] pending.op = "chat/submitMessage" ->
              /\ auth
              /\ lastReturn.kind = "none"
              /\ UNCHANGED <<authReply, leftBy, kpc, pending>>
    /\ lastReturn' = IF pending.op = "chat/submitMessage"
                     THEN [kind |-> "shown", response |-> "answer", context_files |-> <<>>]
                     ELSE NoReturn
    /\ UNCHANGED <<wireIds, MESSAGE_ID, sent, clientError, nops, nNotifs, process, signals,
                   closeLog, closeCalls>>
    /\ UNCHANGED <<tasks, pc, awaited, clen, outcome, ncalls, lastWrite, connLost,
                   answered, nFrames, ownRead>>
    /\ UNCHANGED <<connBase, repos, current_repo_context, lastCall>>
    /\ UNCHANGED <<streamVars, codecVars>>
    /\ UNCHANGED <<impl, use_tcp, cpc, iter, retry, history, reader, writer, openError>>
    /\ UNCHANGED <<binary, lpc, writerClosed, closeError>>

\* cody_agent_py.py:196-197: a read times out and the response loop ends.
\* send_initialization_message then returns None and
\* `server_info.authenticated` raises AttributeError (:63); new_chat_session
\* returns None and main goes on; submit_chat_message returns, and after
\* the second message main cleans up (:87)
LegacyTimeout ==
    /\ kpc = "wait"
    /\ pending' = NoPending
    /\ CASE pending.op = "initialize" ->
              /\ kpc' = "returned"
              /\ clientError' = "AttributeError"
         [] pending.op = "chat/new" ->
              /\ kpc' = "input"
              /\ UNCHANGED clientError
         [] pending.op = "chat/submitMessage" ->
              /\ kpc' = IF nops < 2 THEN "input" ELSE "cleanup"
              /\ UNCHANGED clientError
    /\ UNCHANGED <<wireIds, MESSAGE_ID, sent, authReply, nops, nNotifs, process, signals,
                   closeLog, closeCalls>>
    /\ LegacyFrame

\* cody_agent_py.py:200 and 204: the stream ends (the child has exited);
\* readuntil / readexactly raise IncompleteReadError, which nothing catches
LegacyEof ==
    /\ kpc = "wait"
    /\ process = "exited"
    /\ kpc' = "returned"
    /\ pending' = NoPending
    /\ clientError' = "IncompleteReadError"
    /\ UNCHANGED <<wireIds, MESSAGE_ID, sent, authReply, nops, nNotifs, process, signals,
                   closeLog, closeCalls>>
    /\ LegacyFrame

\* cody_agent_py.py:72 and 131: main creates the chat
LegacyNewChat ==
    /\ kpc = "chatNew"
    /\ LegacySend("chat/new", <<>>, "wait")
    /\ UNCHANGED <<authReply, nops, nNotifs, process, signals, closeLog, closeCalls>>
    /\ LegacyFrame

\* cody_agent_py.py:78-79 and 82-83: a message is read from the terminal
\* and submitted
LegacySubmit(text) ==
    /\ kpc = "input"
    /\ nops < 2
    /\ nops' = nops + 1
    /\ LegacySend("chat/submitMessage", <<text>>, "wait")
    /\ UNCHANGED <<authReply, nNotifs, process, signals, closeLog, closeCalls>>
    /\ UNCHANGED <<tasks, pc, awaited, clen, outcome, ncalls, lastWrite, connLost,
                   answered, nFrames, ownRead>>
    /\ lastReturn' = NoReturn
    /\ UNCHANGED <<connBase, repos, current_repo_context, lastCall, leftBy>>
    /\ UNCHANGED <<streamVars, codecVars>>
    /\ UNCHANGED <<impl, use_tcp, cpc, iter, retry, history, reader, writer, openError>>
    /\ UNCHANGED <<binary, lpc, writerClosed, closeError>>

\* cody_agent_py.py:223-224: the body of cleanup_server_connection begins:
\* the exit request is sent
LegacyCleanupExit ==
    /\ kpc = "cleanup"
    /\ closeCalls' = closeCalls + 1
    /\ LegacySend("exit", <<>>, "cleanupTerminate")
    /\ closeLog' = IF process = "exited" THEN <<>> ELSE <<"exit">>
    /\ UNCHANGED <<authReply, nops, nNotifs, process, signals>>
    /\ LegacyFrame

\* cody_agent_py.py:225-227: terminate() when returncode is None, then
\* process.wait(); main returns
LegacyTerminateAndWait ==
    /\ kpc = "cleanupTerminate"
    /\ signals' = IF NeedsTerminate(process) THEN signals + 1 ELSE signals
    /\ closeLog' = closeLog \o TerminateAndWait(process)
    /\ process' = "exited"
    /\ kpc' = "returned"
    /\ pending' = NoPending
    /\ UNCHANGED <<wireIds, MESSAGE_ID, sent, clientError, authReply, nops, nNotifs,
                   closeCalls>>
    /\ LegacyFrame

NextLegacy ==
    \/ LegacyInitialize
    \/ LegacySkip
    \/ \E auth \in BOOLEAN : LegacyResult(auth)
    \/ LegacyTimeout
    \/ LegacyEof
    \/ LegacyNewChat
    \/ \E text \in LegacyTexts : LegacySubmit(text)
    \/ LegacyCleanupExit
    \/ LegacyTerminateAndWait
    \/ ProcessExits

SpecLegacy == InitLegacy /\ [][NextLegacy]_vars

(***************************************************************************)
(* Properties of request_response (specification Spec).                    *)
(***************************************************************************)
\* what task t's pending readexactly is about to hand to the loop body
FrameAtHand(t) == ReceiveBody(rbuf, clen[t], AtEof)

\* task t is about to read a complete, well-formed response frame
ReadsResponse(t) ==
    /\ pc[t] = "readBody"
    /\ FrameAtHand(t).status = "ok"
    /\ "id" \in FrameAtHand(t).msg.keys
    /\ FrameAtHand(t).msg.keys \cap {"result", "error"} # {}

\* C1 (response correlation): a call that returns the result of a frame
\* returns it from a response frame whose id equals the id of the request
\* the call sent, and the value returned is that frame's result.
C1_ReturnsOnlyMatchingResponse ==
    \A t \in tasks :
        (outcome[t].kind = "return" /\ outcome[t].via = "result") =>
            /\ "id" \in outcome[t].frame.keys
            /\ outcome[t].frame.id = awaited[t]
            /\ outcome[t].value = outcome[t].frame.result

\* C2 (id monotonicity): with the calls made one after another by one task,
\* the k-th request frame on the wire carries id k.
C2_IdsAreOneToN == \A k \in 1..Len(wireIds) : wireIds[k] = k

\* C2's case: two calls have been made and both frames are on the wire
C2_Witness ==
    /\ Len(wireIds) = 2
    /\ ncalls = 2
    /\ \E t \in tasks : pc[t] = "done" /\ outcome[t].kind = "return"

\* C3 (timeout boundary): a call whose read timed out ends by raising
\* TimeoutError, never by returning a value.
C3_TimeoutIsRaised ==
    \A t \in tasks :
        outcome[t].timeout => outcome[t].kind = "raise" /\ outcome[t].exc = "TimeoutError"

\* C4 (remote error): when the call reads the response to its own request and
\* that response carries an error envelope, the call ends at that frame by
\* raising.
C4_ErrorEnvelopeRaises ==
    [][\A t \in tasks :
          (/\ ReadsResponse(t)
           /\ "error" \in FrameAtHand(t).msg.keys
           /\ FrameAtHand(t).msg.id = awaited[t]
           /\ pc'[t] # "readBody")
          => (pc'[t] = "done" /\ outcome'[t].kind = "raise")]_vars

\* C5 (id mismatch): when the call reads a response frame whose id differs
\* from the id it awaits, the call ends by raising; it neither returns that
\* frame's result nor reads on.
C5_MismatchIsSurfaced ==
    [][\A t \in tasks :
          (/\ ReadsResponse(t)
           /\ FrameAtHand(t).msg.id # awaited[t]
           /\ pc'[t] # "readBody")
          => (pc'[t] = "done" /\ outcome'[t].kind = "raise")]_vars

\* C6 (byte-length correctness): the number in the Content-Length header of
\* the frame just written equals the number of bytes that follow the header.
C6_DeclaredLengthIsByteCount ==
    lastWrite # <<>> =>
        LET e == HeaderEnd(lastWrite)
            declared == ParseContentLength(Take(lastWrite, e))
        IN /\ e > 0
           /\ declared.ok
           /\ declared.value = Len(lastWrite) - e

\* the tasks whose call has written its request and has not ended
InFlight == {t \in tasks : pc[t] \in {"drain", "readHeader", "readBody"}}

\* a step that hands a request frame to the writer
WritesRequest == ncalls' = ncalls + 1

C16_IdsAreUnique ==
    \A i, j \in 1..Len(wireIds) : i # j => wireIds[i] # wireIds[j]

\* C17 (no partial failure): a call that has ended either returned the
\* result of the response to its own request or raised an exception; it
\* returned nothing else.
C17_NoPartialFailure ==
    \A t \in tasks :
        pc[t] = "done" =>
            \/ /\ outcome[t].kind = "return"
               /\ outcome[t].frame.keys = {"id", "result"}
               /\ outcome[t].frame.id = awaited[t]
               /\ outcome[t].value = outcome[t].frame.result
            \/ /\ outcome[t].kind = "raise"
               /\ outcome[t].exc # "none"

\* C18 (no automatic retry): a frame reaches the writer only as the first
\* step of a call, one frame per call; a call that has ended (result,
\* exception or timeout) stays ended, and until the caller makes another call
\* nothing is read from the stream.
C18_NoAutomaticRetry ==
    /\ [](/\ Len(wireIds) <= ncalls
          /\ \A t \in tasks : outcome[t].kind # "none" => pc[t] = "done")
    /\ [][/\ (lastWrite' # lastWrite \/ wireIds' # wireIds) =>
                (WritesRequest /\ Len(wireIds') <= Len(wireIds) + 1)
          /\ \A t \in tasks :
                (pc[t] = "done" /\ ~WritesRequest) =>
                    /\ pc'[t] = "done"
                    /\ outcome'[t] = outcome[t]
          /\ (InFlight = {} /\ ~WritesRequest) =>
                (Len(rbuf') >= Len(rbuf) /\ Take(rbuf', Len(rbuf)) = rbuf)]_vars

\* C18's case: a call timed out, its response arrived afterwards and lies
\* unread in the buffer, and only the one frame was written
C18_Witness ==
    /\ ncalls = 1
    /\ wireIds = <<1>>
    /\ answered = {1}
    /\ rbuf # <<>>
    /\ \E t \in tasks : pc[t] = "done" /\ outcome[t].timeout

\* the connection is in step when task t's call starts: every request
\* before its own was answered and the answer read by the call that sent it
InStep(t) ==
    \A k \in 1..(awaited[t] - 1) : \E kind \in {"result", "error"} : <<k, kind>> \in ownRead

C20_CounterAdvancesPerRequest ==
    ((\A t \in tasks : pc[t] \in {"idle", "done"}) /\ Len(wireIds) = ncalls) =>
        MESSAGE_ID = ncalls + 1

\* the ids of the request frames written on the current connection, in order
IdsOnConnection == SubSeq(wireIds, connBase + 1, Len(wireIds))

\* C21 (ids are per connection), under SpecConns: on every connection the
\* request frames carry the ids 1, 2, 3, ... in order, whatever was sent on
\* a connection opened before it.
C21_IdsArePerConnection ==
    \A i \in 1..Len(IdsOnConnection) : IdsOnConnection[i] = i

\* a step in which a call gives up on its read
TimesOut ==
    \E t \in tasks : /\ pc[t] \in {"readHeader", "readBody"}
                     /\ pc'[t] = "done"
                     /\ outcome'[t].timeout

\* C22 (stale response after timeout): the step in which a call times out
\* leaves the connection as it is: nothing is closed, no buffered or
\* arriving byte is discarded, the counter is not touched.  The run the
\* claim speaks of is C22_Witness.
C22_TimeoutLeavesStream ==
    [][TimesOut => /\ rbuf' = rbuf
                   /\ net' = net
                   /\ peerClosed' = peerClosed
                   /\ connLost' = connLost
                   /\ writerClosed' = writerClosed
                   /\ MESSAGE_ID' = MESSAGE_ID]_vars

\* C22's case: the first call timed out without reading its response, and
\* the second call, which awaited id 2, returned the result of response 1
C22_Witness ==
    \E t \in tasks :
        /\ wireIds = <<1, 2>>
        /\ pc[t] = "done"
        /\ awaited[t] = 2
        /\ outcome[t].via = "result"
        /\ outcome[t].frame.id = 1
        /\ outcome[t].value = outcome[t].frame.result
        /\ <<1, "result">> \notin ownRead
        /\ ~connLost
        /\ ~peerClosed

\* C23 (every call terminates), under SpecLive: a call whose request was
\* written ends (result returned, error raised or timed out), whatever the
\* peer does, a peer that keeps sending notifications included.
C23_EveryCallTerminates ==
    (pc[1] = "drain") ~> (pc[1] = "done")

\* the bytes the reader has yet to hand out start a frame (the peer writes
\* whole frames, so what is left of the stream is a suffix of their bytes)
AtFrameStart ==
    LET rest == rbuf \o net
    IN rest = <<>> \/ MatchAt(rest, HeaderPrefix, 1)

\* C26 (frame-boundary invariant): whenever a task is about to read a header
\* (at the start of a call's read loop and before each further frame), the
\* stream stands at the start of a frame header.
C26_ReadsStartAtFrameBoundary ==
    \A t \in tasks : pc[t] = "readHeader" => AtFrameStart

(***************************************************************************)
(* Properties of the codec (specification SpecCodec).                      *)
(***************************************************************************)
\* a frame as section 3 of the specification defines it: the header declares
\* the number of bytes of the body
WellFormed(f) == f.bytes = PeerFrame(f.msg)

\* the body bytes of a well-formed frame
BodyOf(f) == Utf8Encode(ToJson(f.msg))

\* the built-in exceptions that stand for a framing error in the code, which
\* defines no FramingError type
FramingErrors == {"IndexError", "ValueError", "IncompleteReadError", "UnicodeDecodeError"}

\* C7 (framing round-trip): a frame written by _send_jsonrpc_request, decoded
\* as one frame, yields the message that was encoded and leaves the stream at
\* the first byte after that frame.
C7_RoundTrip ==
    \A i \in 1..Len(decoded) :
        source[i].kind = "client" =>
            /\ decoded[i] = DecodeOk(source[i].msg)
            /\ (Len(decoded) = i /\ dpc = "header") => rbuf = BytesFrom(source, i + 1)

\* C8 (exact consumption): on a stream of well-formed frames, the decodes
\* return the frames' messages in the order sent, each complete; after the
\* header read the buffer starts with the body of the current frame and the
\* length read is its byte count, and after each decode the buffer starts at
\* the next frame.
C8_ExactConsumption ==
    (\A j \in 1..Len(source) : WellFormed(source[j])) =>
        /\ \A i \in 1..Len(decoded) : decoded[i] = DecodeOk(source[i].msg)
        /\ dpc # "failed"
        /\ dpc = "header" => rbuf = BytesFrom(source, Len(decoded) + 1)
        /\ dpc = "body" =>
              /\ dlen = Len(BodyOf(source[Len(decoded) + 1]))
              /\ rbuf = BodyOf(source[Len(decoded) + 1]) \o BytesFrom(source, Len(decoded) + 2)

\* C8's case: two well-formed frames back to back, one of them with a
\* multi-byte character, have both been decoded
C8_Witness ==
    /\ Len(source) = 2
    /\ \A j \in 1..2 : WellFormed(source[j])
    /\ \E j \in 1..2 : source[j].msg.result = AccentedParam
    /\ source[1] # source[2]
    /\ Len(decoded) = 2
    /\ rbuf = <<>>

\* C9 (malformed frame rejection) as claimed: the decode of a frame without a
\* Content-Length field, with a length that is no decimal integer, or with a
\* body shorter than declared, fails with a framing error.
C9_MalformedIsFramingError ==
    \A i \in 1..Len(decoded) :
        source[i].kind \in {"nolength", "badlength", "short"} =>
            ~decoded[i].ok /\ decoded[i].exc \in FramingErrors

\* C9 as amended: such a decode fails with IndexError (no Content-Length
\* field), ValueError (length not decimal), IncompleteReadError (the stream
\* ends inside the body) or asyncio.TimeoutError (the stream stalls inside
\* the body); it never yields a message, and while a frame is under way the
\* decoder can always take a step (it does not hang).
C9_MalformedIsRejected ==
    /\ \A i \in 1..Len(decoded) :
          /\ source[i].kind = "nolength" => decoded[i] = DecodeRaised("IndexError")
          /\ source[i].kind = "badlength" => decoded[i] = DecodeRaised("ValueError")
          /\ source[i].kind = "short" =>
                decoded[i] = DecodeRaised(IF peerClosed THEN "IncompleteReadError"
                                          ELSE "TimeoutError")
    /\ (dpc # "failed" /\ Len(decoded) < Len(source)) =>
          (HeaderReady \/ BodyReady \/ DecodeStalled)

\* C9's case: each kind of malformed frame has been decoded, the short one
\* on a stream that stalled
C9_Witness ==
    /\ Len(decoded) = 2
    /\ source[1].kind = "peer"
    /\ source[2].kind = "short"
    /\ ~peerClosed
    /\ dpc = "failed"

(***************************************************************************)
(* Properties of the open (specification SpecConn).                        *)
(***************************************************************************)
\* the open_connection calls that were refused
Refusals == Len(SelectSeq(history, LAMBDA o : o = "refused"))

\* every open_connection call so far was refused
AllRefused == \A i \in 1..Len(history) : history[i] = "refused"

\* the last open_connection call succeeded
LastSucceeded == history # <<>> /\ history[Len(history)] = "ok"

CloseStarts == closeCalls' = closeCalls + 1

\* a step with which a close() / cleanup_server() call returns
CloseReturns == lpc' = "returned" /\ (lpc # "returned" \/ CloseStarts)

\* the latest close() / cleanup_server() did its work on a spawned process
\* and returned
AlreadyClosed == closeCalls >= 1 /\ lpc = "returned" /\ closeLog # <<>>

\* C11 (close waits for exit): close() of the process manager returns on a
\* spawned child only when the child has exited, in stdio and in TCP mode;
\* it sends the termination signal exactly when the child has not exited
\* yet, nothing else sends one, and in TCP mode it closes the writer (the
\* socket, once the connection was made).
C11_CloseWaitsForExit ==
    [][impl = "process" =>
          /\ (CloseReturns /\ process' # "none") => process' = "exited"
          /\ (CloseStarts /\ process # "none") =>
                /\ signals' = signals + (IF process = "running" THEN 1 ELSE 0)
                /\ use_tcp => writerClosed'
                /\ (use_tcp /\ cpc = "open") => writer = "socket"
                /\ ~use_tcp => writerClosed' = writerClosed
          /\ signals' # signals => CloseStarts]_vars

\* C11's case: a TCP connection was opened and closed while the child was
\* running: the writer was closed, the signal sent, and close returned after
\* the exit
C11_Witness ==
    /\ impl = "process"
    /\ use_tcp
    /\ cpc = "open"
    /\ lpc = "returned"
    /\ closeLog = <<"closeWriter", "terminate", "wait">>
    /\ process = "exited"
    /\ signals = 1
    /\ writerClosed

\* C12 (close is idempotent): close() on an object that was never opened, or
\* whose close() has already run, returns at once without an error, sends no
\* signal and leaves the process, the streams and the open state as they were.
C12_CloseIsIdempotent ==
    [][(impl = "process" /\ CloseStarts /\ (process = "none" \/ AlreadyClosed)) =>
          /\ lpc' = "returned"
          /\ closeError' = "none"
          /\ signals' = signals
          /\ process' = process
          /\ writerClosed' = writerClosed
          /\ reader' = reader
          /\ writer' = writer
          /\ cpc' = cpc]_vars

\* C12's case: an opened connection was closed twice; only the first close
\* sent the signal
C12_Witness ==
    /\ impl = "process"
    /\ cpc = "open"
    /\ closeCalls = 2
    /\ AlreadyClosed
    /\ process = "exited"
    /\ signals = 1

\* C13 (graceful shutdown order): cleanup_server first writes the frame of
\* the shutdown request, then sends the termination signal exactly when the
\* child has not exited, then waits; it returns only after the wait, with the
\* child exited.
C13_ShutdownOrder ==
    /\ [](impl \in {"server", "new"} =>
            closeLog \in {<<>>, <<"write">>, <<"write", "wait">>,
                          <<"write", "terminate", "wait">>})
    /\ [][(impl \in {"server", "new"}) =>
            ((CloseStarts =>
                  /\ closeLog' = <<"write">>
                  /\ lastWrite' = EncodeFrame(Request(MESSAGE_ID, "shutdown", Null)))
             /\ ((lpc = "shutdownDrain" /\ lpc' \in {"wait", "returned"}) =>
                  /\ signals' = signals + (IF process = "running" THEN 1 ELSE 0)
                  /\ closeLog' = closeLog \o (IF process = "running"
                                              THEN <<"terminate", "wait">>
                                              ELSE <<"wait">>))
             /\ (signals' # signals => lpc = "shutdownDrain")
             /\ (CloseReturns =>
                  (process' = "exited" /\ closeLog'[Len(closeLog')] = "wait")))]_vars

\* C13's case: cleanup_server ran on a running child: shutdown written with
\* id 1, the child signalled, the exit awaited, the call returned
C13_Witness ==
    /\ impl = "server"
    /\ lpc = "returned"
    /\ closeLog = <<"write", "terminate", "wait">>
    /\ process = "exited"
    /\ wireIds = <<1>>
    /\ MESSAGE_ID = 2
    /\ signals = 1

ConnectExhausted ==
    cpc = "failed" /\ openError \in {"ConnectionRefusedError", "ServerTCPConnectionError"}

\* C25 (failed TCP connect ends the session): when the open reports that the
\* connect attempts are exhausted, the child it spawned is not left running.
C25_FailedConnectEndsSession ==
    ConnectExhausted => process # "running"

\* C27 (cleanup survives a failed shutdown write): when cleanup_server ends
\* with the error of its shutdown write, the child has been terminated if it
\* was alive and its exit has been awaited.
C27_CleanupSurvivesFailedWrite ==
    lpc = "raised" =>
        /\ process = "exited"
        /\ closeLog # <<>>
        /\ closeLog[Len(closeLog)] = "wait"

\* a step in which open_connection is called and fails or succeeds
Attempts == Len(history') = Len(history) + 1

\* C28 (only a refused connection is retried): a refused attempt is followed
\* by the sleep and, while attempts remain, by the next attempt; an attempt
\* that fails with another error ends the open at once with that error, so
\* such an error is always the last entry of the history.
C28_OnlyRefusedIsRetried ==
    /\ [](\A i \in 1..Len(history) :
            history[i] = "error" =>
                /\ i = Len(history)
                /\ cpc = "failed"
                /\ openError = "OSError")
    /\ [][/\ (Attempts /\ history'[Len(history')] = "refused") =>
                (cpc' = "sleep" /\ openError' = openError)
          /\ (Attempts /\ history'[Len(history')] = "error") =>
                (cpc' = "failed" /\ openError' = "OSError")
          /\ (cpc = "sleep" /\ cpc' # "sleep" /\ iter + 1 < retry_attempts) =>
                (cpc' = "connect" /\ history' = history)
          /\ (cpc = "failed") => history' = history]_vars

\* C28's case: a refused attempt was retried, and the attempt after it
\* failed with another error and ended the open
C28_Witness ==
    /\ history = <<"refused", "error">>
    /\ cpc = "failed"
    /\ openError = "OSError"
    /\ iter = 1

(***************************************************************************)
(* Properties of the client layer (specification SpecClient).              *)
(***************************************************************************)
\* C24 (unauthenticated handshake): when the handshake has failed on an
\* initialize result with authenticated = false, the shutdown request was
\* the last request written, the child has been terminated if it was alive
\* and its exit has been awaited.
C24_UnauthenticatedCleansUp ==
    (kpc = "failed" /\ authReply = "no") =>
        /\ sent[Len(sent)][1] = "shutdown"
        /\ closeLog # <<>>
        /\ closeLog[1] = "write"
        /\ closeLog[Len(closeLog)] = "wait"
        /\ process = "exited"

\* the graphql/getRepoIds requests written so far, by position in sent
LookupRequests == {i \in 1..Len(sent) : sent[i][1] = "graphql/getRepoIds"}

\* C29 (repository lookup cache): no repository name is included in two
\* graphql/getRepoIds requests of one client.
C29_EachNameLookedUpOnce ==
    \A i, j \in LookupRequests :
        i # j => Range(sent[i][2]) \cap Range(sent[j][2]) = {}

\* a step in which set_context_repo is called with the recorded context
RepeatsContext ==
    /\ nops' = nops + 1
    /\ lastCall'.op = "set_context_repo"
    /\ lastCall'.list = current_repo_context

\* C30 (repeated context is a no-op): a set_context_repo with a list equal
\* to the recorded context writes no request and leaves the id counter, the
\* cache and the recorded context as they are.
C30_RepeatedContextIsNoOp ==
    [][RepeatsContext => /\ wireIds' = wireIds
                         /\ sent' = sent
                         /\ MESSAGE_ID' = MESSAGE_ID
                         /\ repos' = repos
                         /\ current_repo_context' = current_repo_context
                         /\ kpc' = "ready"
                         /\ pending' = NoPending]_vars

\* C30's case: the context r1, r2 was set (the lookup and the context
\* message were sent after the handshake), and the same list was set again
C30_Witness ==
    /\ lastCall = [op |-> "set_context_repo", list |-> <<"r1", "r2">>, same |-> TRUE,
                   before |-> <<"r1", "r2">>]
    /\ current_repo_context = <<"r1", "r2">>
    /\ nops = 2
    /\ kpc = "ready"
    /\ Len(sent) = 3
    /\ sent[2][1] = "graphql/getRepoIds"
    /\ sent[3][1] = "webview/receiveMessage"
    /\ MESSAGE_ID = 4

\* the latest operation was a set_context_repo that has ended with an exception
SetContextFailed ==
    /\ kpc = "ready"
    /\ lastCall.op = "set_context_repo"
    /\ clientError # "none"

\* C31 (context unchanged on failure): when set_context_repo fails (its
\* lookup or its webview/receiveMessage request raises or times out), the
\* recorded repo context is the one the call found, so that a retry with
\* the same list is not taken for a repetition.
C31_ContextUnchangedOnFailure ==
    SetContextFailed => current_repo_context = lastCall.before

\* a step in which chat is called with "/quit"
QuitCalled ==
    /\ nops' = nops + 1
    /\ lastCall'.op = "chat"
    /\ lastCall'.list = <<"/quit">>

\* C32 (quit sends nothing): chat("/quit") returns an empty response with an
\* empty context-file list and sends no request: no frame is written, no
\* read of the stream is begun and the message id counter is unchanged.
C32_QuitSendsNothing ==
    [][QuitCalled => /\ lastReturn' = [kind |-> "tuple", response |-> "",
                                       context_files |-> <<>>]
                     /\ wireIds' = wireIds
                     /\ lastWrite' = lastWrite
                     /\ sent' = sent
                     /\ MESSAGE_ID' = MESSAGE_ID
                     /\ rbuf' = rbuf
                     /\ net' = net
                     /\ kpc' = "ready"
                     /\ pending' = NoPending]_vars

\* C32's case: a message was submitted and answered, then "/quit" was passed
C32_Witness ==
    /\ lastCall.op = "chat"
    /\ lastCall.list = <<"/quit">>
    /\ lastReturn = [kind |-> "tuple", response |-> "", context_files |-> <<>>]
    /\ nops = 2
    /\ kpc = "ready"
    /\ Len(sent) = 2
    /\ sent[2][1] = "chat/submitMessage"
    /\ MESSAGE_ID = 3

(***************************************************************************)
(* Properties of the commands (specification SpecCli).                     *)
(***************************************************************************)
\* the command has ended after its chat session had been created
ExitedWithSession == kpc = "exited" /\ leftBy # "none"

\* a step in which start_chat reads an empty line
EmptyLineRead ==
    /\ nops' = nops + 1
    /\ lastCall'.op = "input"
    /\ lastCall'.list = <<"">>

\* C33 (the commands always close the agent): once the chat session has
\* been created, ask_question and start_chat end only after the agent's
\* close() has been run, whichever way the try block was left (completion,
\* exit, KeyboardInterrupt, EOFError, an exception of ask); and an empty
\* input line of start_chat writes no request.
C33_CliAlwaysClosesAgent ==
    /\ [](ExitedWithSession => closeCalls >= 1)
    /\ [][EmptyLineRead => /\ wireIds' = wireIds
                           /\ sent' = sent
                           /\ MESSAGE_ID' = MESSAGE_ID
                           /\ kpc' = "input"]_vars

\* C33's case: start_chat read an empty line and a question, the ask of the
\* question raised, and the command has ended with the agent closed
C33_Witness ==
    /\ impl = "start_chat"
    /\ kpc = "exited"
    /\ leftBy = "exception"
    /\ clientError = "TypeError"
    /\ nops = 2
    /\ Len(sent) = 3
    /\ sent[3][1] = "chat/submitMessage"
    /\ closeCalls = 1

(***************************************************************************)
(* Properties of the legacy client (specification SpecLegacy).             *)
(***************************************************************************)
\* main has returned from its unauthenticated branch
ReturnedUnauthenticated ==
    /\ kpc = "returned"
    /\ authReply = "no"
    /\ leftBy = "unauthenticated"
    /\ clientError = "none"

\* C34 (the legacy client cleans up when unauthenticated): when the result
\* of initialize reports an unauthenticated server, main returns only after
\* the cleanup: the exit request has been sent, the child has been
\* terminated if it was alive, and its exit has been awaited.
C34_LegacyUnauthenticatedCleansUp ==
    ReturnedUnauthenticated =>
        /\ sent[Len(sent)][1] = "exit"
        /\ closeLog # <<>>
        /\ closeLog[Len(closeLog)] = "wait"
        /\ process = "exited"

====
